---------------------------- MODULE Spec2Model ----------------------------
(***************************************************************************)
(* A model of ckanext-docuvision: format resolution, the per-format        *)
(* extraction chains and the persist step of process_resource              *)
(* (ckanext/docuvision/processing.py and the same code as methods of       *)
(* DocuvisionPlugin in ckanext/docuvision/plugin.py).                      *)
(*                                                                         *)
(* Python strings are sequences of one-character strings, so that lower(), *)
(* strip(), os.path.splitext, concatenation and substring tests are        *)
(* computed as the code computes them.                                     *)
(***************************************************************************)
EXTENDS Integers, Sequences, FiniteSets, TLC

\* ------------------------------------------------------------------------
\* Python values
\* ------------------------------------------------------------------------

\* Python's None; no string, since every character is a one-character string.
None == <<"<None>">>

\* The empty str.
EmptyStr == << >>

\* Truthiness of a str-or-None operand of `or` / `if`.
Falsy(x) == x = None \/ x = EmptyStr

\* x or y
PyOr(x, y) == IF Falsy(x) THEN y ELSE x

\* d.get(k, default)
DictGet(d, k, default) == IF k \in DOMAIN d THEN d[k] ELSE default

\* d.values()
DictValues(d) == {d[k] : k \in DOMAIN d}

SetMax(S) == CHOOSE m \in S : \A x \in S : x <= m

SetMin(S) == CHOOSE m \in S : \A x \in S : m <= x

\* The characters of the model are those of ISO 8859-1 (Latin-1), each a
\* one-character string, in the order of their code points 0 to 255. A
\* character that has no place in a one-character string of the model, the
\* null character, the grave accent and every character beyond Latin-1, is
\* written by its code point, as "u0000", "u0060" or "uFFFD".
Latin1 ==
    <<"u0000", "", "", "", "", "", "", "", "", "\t", "\n", "", "\f", "\r", "", "",
      "", "", "", "", "", "", "", "", "", "", "", "", "", "", "", "",
      " ", "!", "\"", "#", "$", "%", "&", "'", "(", ")", "*", "+", ",", "-", ".", "/",
      "0", "1", "2", "3", "4", "5", "6", "7", "8", "9", ":", ";", "<", "=", ">", "?",
      "@", "A", "B", "C", "D", "E", "F", "G", "H", "I", "J", "K", "L", "M", "N", "O",
      "P", "Q", "R", "S", "T", "U", "V", "W", "X", "Y", "Z", "[", "\\", "]", "^", "_",
      "u0060", "a", "b", "c", "d", "e", "f", "g", "h", "i", "j", "k", "l", "m", "n", "o",
      "p", "q", "r", "s", "t", "u", "v", "w", "x", "y", "z", "{", "|", "}", "~", "",
      "", "", "", "", "", "", "", "", "", "", "", "", "", "", "", "",
      "", "", "", "", "", "", "", "", "", "", "", "", "", "", "", "",
      " ", "¡", "¢", "£", "¤", "¥", "¦", "§", "¨", "©", "ª", "«", "¬", "­", "®", "¯",
      "°", "±", "²", "³", "´", "µ", "¶", "·", "¸", "¹", "º", "»", "¼", "½", "¾", "¿",
      "À", "Á", "Â", "Ã", "Ä", "Å", "Æ", "Ç", "È", "É", "Ê", "Ë", "Ì", "Í", "Î", "Ï",
      "Ð", "Ñ", "Ò", "Ó", "Ô", "Õ", "Ö", "×", "Ø", "Ù", "Ú", "Û", "Ü", "Ý", "Þ", "ß",
      "à", "á", "â", "ã", "ä", "å", "æ", "ç", "è", "é", "ê", "ë", "ì", "í", "î", "ï",
      "ð", "ñ", "ò", "ó", "ô", "õ", "ö", "÷", "ø", "ù", "ú", "û", "ü", "ý", "þ", "ÿ">>

\* chr(n) and ord(c) on Latin-1.
Chr(n) == Latin1[n + 1]

Ord(c) == (CHOOSE i \in 1..Len(Latin1) : Latin1[i] = c) - 1

RECURSIVE HexName(_, _)
\* n in base 16, in capitals, with at least width digits, as one string.
HexName(n, width) ==
    LET upper == <<"0", "1", "2", "3", "4", "5", "6", "7", "8", "9",
                   "A", "B", "C", "D", "E", "F">>
    IN  IF n < 16 /\ width <= 1 THEN upper[n + 1]
        ELSE HexName(n \div 16, width - 1) \o upper[(n % 16) + 1]

\* chr(n) for any code point: the character of Latin-1, or the code point
\* written out.
CharOf(n) == IF n < 256 THEN Chr(n) ELSE "u" \o HexName(n, 4)

RECURSIVE HexNameVal(_)
\* The number a string of capital hexadecimal digits writes.
HexNameVal(h) ==
    LET upper == <<"0", "1", "2", "3", "4", "5", "6", "7", "8", "9",
                   "A", "B", "C", "D", "E", "F">>
    IN  IF Len(h) = 0 THEN 0
        ELSE 16 * HexNameVal(SubSeq(h, 1, Len(h) - 1))
                + (CHOOSE k \in 1..16 : upper[k] = SubSeq(h, Len(h), Len(h))) - 1

\* ord(c) for any character: the inverse of CharOf.
Cp(c) == IF Len(c) = 1 THEN Ord(c) ELSE HexNameVal(Tail(c))

\* The code points str.lower() maps to one other character (Unicode 14.0):
\* <<first, last, step, offset>> maps first, first + step, ... up to last,
\* each to the code point offset above it.
LowerRanges ==
    {<<65, 90, 1, 32>>, <<192, 214, 1, 32>>, <<216, 222, 1, 32>>,
     <<256, 302, 2, 1>>, <<306, 310, 2, 1>>, <<313, 327, 2, 1>>,
     <<330, 374, 2, 1>>, <<376, 376, 1, -121>>, <<377, 381, 2, 1>>,
     <<385, 385, 1, 210>>, <<386, 388, 2, 1>>, <<390, 390, 1, 206>>,
     <<391, 391, 1, 1>>, <<393, 394, 1, 205>>, <<395, 395, 1, 1>>,
     <<398, 398, 1, 79>>, <<399, 399, 1, 202>>, <<400, 400, 1, 203>>,
     <<401, 401, 1, 1>>, <<403, 403, 1, 205>>, <<404, 404, 1, 207>>,
     <<406, 406, 1, 211>>, <<407, 407, 1, 209>>, <<408, 408, 1, 1>>,
     <<412, 412, 1, 211>>, <<413, 413, 1, 213>>, <<415, 415, 1, 214>>,
     <<416, 420, 2, 1>>, <<422, 422, 1, 218>>, <<423, 423, 1, 1>>,
     <<425, 425, 1, 218>>, <<428, 428, 1, 1>>, <<430, 430, 1, 218>>,
     <<431, 431, 1, 1>>, <<433, 434, 1, 217>>, <<435, 437, 2, 1>>,
     <<439, 439, 1, 219>>, <<440, 440, 1, 1>>, <<444, 444, 1, 1>>,
     <<452, 452, 1, 2>>, <<453, 453, 1, 1>>, <<455, 455, 1, 2>>,
     <<456, 456, 1, 1>>, <<458, 458, 1, 2>>, <<459, 475, 2, 1>>,
     <<478, 494, 2, 1>>, <<497, 497, 1, 2>>, <<498, 500, 2, 1>>,
     <<502, 502, 1, -97>>, <<503, 503, 1, -56>>, <<504, 542, 2, 1>>,
     <<544, 544, 1, -130>>, <<546, 562, 2, 1>>, <<570, 570, 1, 10795>>,
     <<571, 571, 1, 1>>, <<573, 573, 1, -163>>, <<574, 574, 1, 10792>>,
     <<577, 577, 1, 1>>, <<579, 579, 1, -195>>, <<580, 580, 1, 69>>,
     <<581, 581, 1, 71>>, <<582, 590, 2, 1>>, <<880, 882, 2, 1>>,
     <<886, 886, 1, 1>>, <<895, 895, 1, 116>>, <<902, 902, 1, 38>>,
     <<904, 906, 1, 37>>, <<908, 908, 1, 64>>, <<910, 911, 1, 63>>,
     <<913, 929, 1, 32>>, <<931, 939, 1, 32>>, <<975, 975, 1, 8>>,
     <<984, 1006, 2, 1>>, <<1012, 1012, 1, -60>>, <<1015, 1015, 1, 1>>,
     <<1017, 1017, 1, -7>>, <<1018, 1018, 1, 1>>, <<1021, 1023, 1, -130>>,
     <<1024, 1039, 1, 80>>, <<1040, 1071, 1, 32>>, <<1120, 1152, 2, 1>>,
     <<1162, 1214, 2, 1>>, <<1216, 1216, 1, 15>>, <<1217, 1229, 2, 1>>,
     <<1232, 1326, 2, 1>>, <<1329, 1366, 1, 48>>, <<4256, 4293, 1, 7264>>,
     <<4295, 4295, 1, 7264>>, <<4301, 4301, 1, 7264>>,
     <<5024, 5103, 1, 38864>>, <<5104, 5109, 1, 8>>,
     <<7312, 7354, 1, -3008>>, <<7357, 7359, 1, -3008>>,
     <<7680, 7828, 2, 1>>, <<7838, 7838, 1, -7615>>, <<7840, 7934, 2, 1>>,
     <<7944, 7951, 1, -8>>, <<7960, 7965, 1, -8>>, <<7976, 7983, 1, -8>>,
     <<7992, 7999, 1, -8>>, <<8008, 8013, 1, -8>>, <<8025, 8031, 2, -8>>,
     <<8040, 8047, 1, -8>>, <<8072, 8079, 1, -8>>, <<8088, 8095, 1, -8>>,
     <<8104, 8111, 1, -8>>, <<8120, 8121, 1, -8>>, <<8122, 8123, 1, -74>>,
     <<8124, 8124, 1, -9>>, <<8136, 8139, 1, -86>>, <<8140, 8140, 1, -9>>,
     <<8152, 8153, 1, -8>>, <<8154, 8155, 1, -100>>, <<8168, 8169, 1, -8>>,
     <<8170, 8171, 1, -112>>, <<8172, 8172, 1, -7>>,
     <<8184, 8185, 1, -128>>, <<8186, 8187, 1, -126>>,
     <<8188, 8188, 1, -9>>, <<8486, 8486, 1, -7517>>,
     <<8490, 8490, 1, -8383>>, <<8491, 8491, 1, -8262>>,
     <<8498, 8498, 1, 28>>, <<8544, 8559, 1, 16>>, <<8579, 8579, 1, 1>>,
     <<9398, 9423, 1, 26>>, <<11264, 11311, 1, 48>>, <<11360, 11360, 1, 1>>,
     <<11362, 11362, 1, -10743>>, <<11363, 11363, 1, -3814>>,
     <<11364, 11364, 1, -10727>>, <<11367, 11371, 2, 1>>,
     <<11373, 11373, 1, -10780>>, <<11374, 11374, 1, -10749>>,
     <<11375, 11375, 1, -10783>>, <<11376, 11376, 1, -10782>>,
     <<11378, 11378, 1, 1>>, <<11381, 11381, 1, 1>>,
     <<11390, 11391, 1, -10815>>, <<11392, 11490, 2, 1>>,
     <<11499, 11501, 2, 1>>, <<11506, 11506, 1, 1>>, <<42560, 42604, 2, 1>>,
     <<42624, 42650, 2, 1>>, <<42786, 42798, 2, 1>>, <<42802, 42862, 2, 1>>,
     <<42873, 42875, 2, 1>>, <<42877, 42877, 1, -35332>>,
     <<42878, 42886, 2, 1>>, <<42891, 42891, 1, 1>>,
     <<42893, 42893, 1, -42280>>, <<42896, 42898, 2, 1>>,
     <<42902, 42920, 2, 1>>, <<42922, 42922, 1, -42308>>,
     <<42923, 42923, 1, -42319>>, <<42924, 42924, 1, -42315>>,
     <<42925, 42925, 1, -42305>>, <<42926, 42926, 1, -42308>>,
     <<42928, 42928, 1, -42258>>, <<42929, 42929, 1, -42282>>,
     <<42930, 42930, 1, -42261>>, <<42931, 42931, 1, 928>>,
     <<42932, 42946, 2, 1>>, <<42948, 42948, 1, -48>>,
     <<42949, 42949, 1, -42307>>, <<42950, 42950, 1, -35384>>,
     <<42951, 42953, 2, 1>>, <<42960, 42960, 1, 1>>, <<42966, 42968, 2, 1>>,
     <<42997, 42997, 1, 1>>, <<65313, 65338, 1, 32>>,
     <<66560, 66599, 1, 40>>, <<66736, 66771, 1, 40>>,
     <<66928, 66938, 1, 39>>, <<66940, 66954, 1, 39>>,
     <<66956, 66962, 1, 39>>, <<66964, 66965, 1, 39>>,
     <<68736, 68786, 1, 64>>, <<71840, 71871, 1, 32>>,
     <<93760, 93791, 1, 32>>, <<125184, 125217, 1, 34>>}

\* The code points <<first, last>> of the cased characters that are not
\* case-ignorable.
CasedRanges ==
    {<<65, 90>>, <<97, 122>>, <<170, 170>>, <<181, 181>>, <<186, 186>>,
     <<192, 214>>, <<216, 246>>, <<248, 442>>, <<444, 447>>, <<452, 659>>,
     <<661, 687>>, <<880, 883>>, <<886, 887>>, <<891, 893>>, <<895, 895>>,
     <<902, 902>>, <<904, 906>>, <<908, 908>>, <<910, 929>>, <<931, 1013>>,
     <<1015, 1153>>, <<1162, 1327>>, <<1329, 1366>>, <<1376, 1416>>,
     <<4256, 4293>>, <<4295, 4295>>, <<4301, 4301>>, <<4304, 4346>>,
     <<4349, 4351>>, <<5024, 5109>>, <<5112, 5117>>, <<7296, 7304>>,
     <<7312, 7354>>, <<7357, 7359>>, <<7424, 7467>>, <<7531, 7543>>,
     <<7545, 7578>>, <<7680, 7957>>, <<7960, 7965>>, <<7968, 8005>>,
     <<8008, 8013>>, <<8016, 8023>>, <<8025, 8025>>, <<8027, 8027>>,
     <<8029, 8029>>, <<8031, 8061>>, <<8064, 8116>>, <<8118, 8124>>,
     <<8126, 8126>>, <<8130, 8132>>, <<8134, 8140>>, <<8144, 8147>>,
     <<8150, 8155>>, <<8160, 8172>>, <<8178, 8180>>, <<8182, 8188>>,
     <<8450, 8450>>, <<8455, 8455>>, <<8458, 8467>>, <<8469, 8469>>,
     <<8473, 8477>>, <<8484, 8484>>, <<8486, 8486>>, <<8488, 8488>>,
     <<8490, 8493>>, <<8495, 8500>>, <<8505, 8505>>, <<8508, 8511>>,
     <<8517, 8521>>, <<8526, 8526>>, <<8544, 8575>>, <<8579, 8580>>,
     <<9398, 9449>>, <<11264, 11387>>, <<11390, 11492>>, <<11499, 11502>>,
     <<11506, 11507>>, <<11520, 11557>>, <<11559, 11559>>, <<11565, 11565>>,
     <<42560, 42605>>, <<42624, 42651>>, <<42786, 42863>>, <<42865, 42887>>,
     <<42891, 42894>>, <<42896, 42954>>, <<42960, 42961>>, <<42963, 42963>>,
     <<42965, 42969>>, <<42997, 42998>>, <<43002, 43002>>, <<43824, 43866>>,
     <<43872, 43880>>, <<43888, 43967>>, <<64256, 64262>>, <<64275, 64279>>,
     <<65313, 65338>>, <<65345, 65370>>, <<66560, 66639>>, <<66736, 66771>>,
     <<66776, 66811>>, <<66928, 66938>>, <<66940, 66954>>, <<66956, 66962>>,
     <<66964, 66965>>, <<66967, 66977>>, <<66979, 66993>>, <<66995, 67001>>,
     <<67003, 67004>>, <<68736, 68786>>, <<68800, 68850>>, <<71840, 71903>>,
     <<93760, 93823>>, <<119808, 119892>>, <<119894, 119964>>,
     <<119966, 119967>>, <<119970, 119970>>, <<119973, 119974>>,
     <<119977, 119980>>, <<119982, 119993>>, <<119995, 119995>>,
     <<119997, 120003>>, <<120005, 120069>>, <<120071, 120074>>,
     <<120077, 120084>>, <<120086, 120092>>, <<120094, 120121>>,
     <<120123, 120126>>, <<120128, 120132>>, <<120134, 120134>>,
     <<120138, 120144>>, <<120146, 120485>>, <<120488, 120512>>,
     <<120514, 120538>>, <<120540, 120570>>, <<120572, 120596>>,
     <<120598, 120628>>, <<120630, 120654>>, <<120656, 120686>>,
     <<120688, 120712>>, <<120714, 120744>>, <<120746, 120770>>,
     <<120772, 120779>>, <<122624, 122633>>, <<122635, 122654>>,
     <<125184, 125251>>, <<127280, 127305>>, <<127312, 127337>>,
     <<127344, 127369>>}

\* The code points <<first, last>> of the case-ignorable characters.
IgnorableRanges ==
    {<<39, 39>>, <<46, 46>>, <<58, 58>>, <<94, 94>>, <<96, 96>>,
     <<168, 168>>, <<173, 173>>, <<175, 175>>, <<180, 180>>, <<183, 184>>,
     <<688, 879>>, <<884, 885>>, <<890, 890>>, <<900, 901>>, <<903, 903>>,
     <<1155, 1161>>, <<1369, 1369>>, <<1375, 1375>>, <<1425, 1469>>,
     <<1471, 1471>>, <<1473, 1474>>, <<1476, 1477>>, <<1479, 1479>>,
     <<1524, 1524>>, <<1536, 1541>>, <<1552, 1562>>, <<1564, 1564>>,
     <<1600, 1600>>, <<1611, 1631>>, <<1648, 1648>>, <<1750, 1757>>,
     <<1759, 1768>>, <<1770, 1773>>, <<1807, 1807>>, <<1809, 1809>>,
     <<1840, 1866>>, <<1958, 1968>>, <<2027, 2037>>, <<2042, 2042>>,
     <<2045, 2045>>, <<2070, 2093>>, <<2137, 2139>>, <<2184, 2184>>,
     <<2192, 2193>>, <<2200, 2207>>, <<2249, 2306>>, <<2362, 2362>>,
     <<2364, 2364>>, <<2369, 2376>>, <<2381, 2381>>, <<2385, 2391>>,
     <<2402, 2403>>, <<2417, 2417>>, <<2433, 2433>>, <<2492, 2492>>,
     <<2497, 2500>>, <<2509, 2509>>, <<2530, 2531>>, <<2558, 2558>>,
     <<2561, 2562>>, <<2620, 2620>>, <<2625, 2626>>, <<2631, 2632>>,
     <<2635, 2637>>, <<2641, 2641>>, <<2672, 2673>>, <<2677, 2677>>,
     <<2689, 2690>>, <<2748, 2748>>, <<2753, 2757>>, <<2759, 2760>>,
     <<2765, 2765>>, <<2786, 2787>>, <<2810, 2815>>, <<2817, 2817>>,
     <<2876, 2876>>, <<2879, 2879>>, <<2881, 2884>>, <<2893, 2893>>,
     <<2901, 2902>>, <<2914, 2915>>, <<2946, 2946>>, <<3008, 3008>>,
     <<3021, 3021>>, <<3072, 3072>>, <<3076, 3076>>, <<3132, 3132>>,
     <<3134, 3136>>, <<3142, 3144>>, <<3146, 3149>>, <<3157, 3158>>,
     <<3170, 3171>>, <<3201, 3201>>, <<3260, 3260>>, <<3263, 3263>>,
     <<3270, 3270>>, <<3276, 3277>>, <<3298, 3299>>, <<3328, 3329>>,
     <<3387, 3388>>, <<3393, 3396>>, <<3405, 3405>>, <<3426, 3427>>,
     <<3457, 3457>>, <<3530, 3530>>, <<3538, 3540>>, <<3542, 3542>>,
     <<3633, 3633>>, <<3636, 3642>>, <<3654, 3662>>, <<3761, 3761>>,
     <<3764, 3772>>, <<3782, 3782>>, <<3784, 3789>>, <<3864, 3865>>,
     <<3893, 3893>>, <<3895, 3895>>, <<3897, 3897>>, <<3953, 3966>>,
     <<3968, 3972>>, <<3974, 3975>>, <<3981, 3991>>, <<3993, 4028>>,
     <<4038, 4038>>, <<4141, 4144>>, <<4146, 4151>>, <<4153, 4154>>,
     <<4157, 4158>>, <<4184, 4185>>, <<4190, 4192>>, <<4209, 4212>>,
     <<4226, 4226>>, <<4229, 4230>>, <<4237, 4237>>, <<4253, 4253>>,
     <<4348, 4348>>, <<4957, 4959>>, <<5906, 5908>>, <<5938, 5939>>,
     <<5970, 5971>>, <<6002, 6003>>, <<6068, 6069>>, <<6071, 6077>>,
     <<6086, 6086>>, <<6089, 6099>>, <<6103, 6103>>, <<6109, 6109>>,
     <<6155, 6159>>, <<6211, 6211>>, <<6277, 6278>>, <<6313, 6313>>,
     <<6432, 6434>>, <<6439, 6440>>, <<6450, 6450>>, <<6457, 6459>>,
     <<6679, 6680>>, <<6683, 6683>>, <<6742, 6742>>, <<6744, 6750>>,
     <<6752, 6752>>, <<6754, 6754>>, <<6757, 6764>>, <<6771, 6780>>,
     <<6783, 6783>>, <<6823, 6823>>, <<6832, 6862>>, <<6912, 6915>>,
     <<6964, 6964>>, <<6966, 6970>>, <<6972, 6972>>, <<6978, 6978>>,
     <<7019, 7027>>, <<7040, 7041>>, <<7074, 7077>>, <<7080, 7081>>,
     <<7083, 7085>>, <<7142, 7142>>, <<7144, 7145>>, <<7149, 7149>>,
     <<7151, 7153>>, <<7212, 7219>>, <<7222, 7223>>, <<7288, 7293>>,
     <<7376, 7378>>, <<7380, 7392>>, <<7394, 7400>>, <<7405, 7405>>,
     <<7412, 7412>>, <<7416, 7417>>, <<7468, 7530>>, <<7544, 7544>>,
     <<7579, 7679>>, <<8125, 8125>>, <<8127, 8129>>, <<8141, 8143>>,
     <<8157, 8159>>, <<8173, 8175>>, <<8189, 8190>>, <<8203, 8207>>,
     <<8216, 8217>>, <<8228, 8228>>, <<8231, 8231>>, <<8234, 8238>>,
     <<8288, 8292>>, <<8294, 8303>>, <<8305, 8305>>, <<8319, 8319>>,
     <<8336, 8348>>, <<8400, 8432>>, <<11388, 11389>>, <<11503, 11505>>,
     <<11631, 11631>>, <<11647, 11647>>, <<11744, 11775>>, <<11823, 11823>>,
     <<12293, 12293>>, <<12330, 12333>>, <<12337, 12341>>, <<12347, 12347>>,
     <<12441, 12446>>, <<12540, 12542>>, <<40981, 40981>>, <<42232, 42237>>,
     <<42508, 42508>>, <<42607, 42610>>, <<42612, 42621>>, <<42623, 42623>>,
     <<42652, 42655>>, <<42736, 42737>>, <<42752, 42785>>, <<42864, 42864>>,
     <<42888, 42890>>, <<42994, 42996>>, <<43000, 43001>>, <<43010, 43010>>,
     <<43014, 43014>>, <<43019, 43019>>, <<43045, 43046>>, <<43052, 43052>>,
     <<43204, 43205>>, <<43232, 43249>>, <<43263, 43263>>, <<43302, 43309>>,
     <<43335, 43345>>, <<43392, 43394>>, <<43443, 43443>>, <<43446, 43449>>,
     <<43452, 43453>>, <<43471, 43471>>, <<43493, 43494>>, <<43561, 43566>>,
     <<43569, 43570>>, <<43573, 43574>>, <<43587, 43587>>, <<43596, 43596>>,
     <<43632, 43632>>, <<43644, 43644>>, <<43696, 43696>>, <<43698, 43700>>,
     <<43703, 43704>>, <<43710, 43711>>, <<43713, 43713>>, <<43741, 43741>>,
     <<43756, 43757>>, <<43763, 43764>>, <<43766, 43766>>, <<43867, 43871>>,
     <<43881, 43883>>, <<44005, 44005>>, <<44008, 44008>>, <<44013, 44013>>,
     <<64286, 64286>>, <<64434, 64450>>, <<65024, 65039>>, <<65043, 65043>>,
     <<65056, 65071>>, <<65106, 65106>>, <<65109, 65109>>, <<65279, 65279>>,
     <<65287, 65287>>, <<65294, 65294>>, <<65306, 65306>>, <<65342, 65342>>,
     <<65344, 65344>>, <<65392, 65392>>, <<65438, 65439>>, <<65507, 65507>>,
     <<65529, 65531>>, <<66045, 66045>>, <<66272, 66272>>, <<66422, 66426>>,
     <<67456, 67461>>, <<67463, 67504>>, <<67506, 67514>>, <<68097, 68099>>,
     <<68101, 68102>>, <<68108, 68111>>, <<68152, 68154>>, <<68159, 68159>>,
     <<68325, 68326>>, <<68900, 68903>>, <<69291, 69292>>, <<69446, 69456>>,
     <<69506, 69509>>, <<69633, 69633>>, <<69688, 69702>>, <<69744, 69744>>,
     <<69747, 69748>>, <<69759, 69761>>, <<69811, 69814>>, <<69817, 69818>>,
     <<69821, 69821>>, <<69826, 69826>>, <<69837, 69837>>, <<69888, 69890>>,
     <<69927, 69931>>, <<69933, 69940>>, <<70003, 70003>>, <<70016, 70017>>,
     <<70070, 70078>>, <<70089, 70092>>, <<70095, 70095>>, <<70191, 70193>>,
     <<70196, 70196>>, <<70198, 70199>>, <<70206, 70206>>, <<70367, 70367>>,
     <<70371, 70378>>, <<70400, 70401>>, <<70459, 70460>>, <<70464, 70464>>,
     <<70502, 70508>>, <<70512, 70516>>, <<70712, 70719>>, <<70722, 70724>>,
     <<70726, 70726>>, <<70750, 70750>>, <<70835, 70840>>, <<70842, 70842>>,
     <<70847, 70848>>, <<70850, 70851>>, <<71090, 71093>>, <<71100, 71101>>,
     <<71103, 71104>>, <<71132, 71133>>, <<71219, 71226>>, <<71229, 71229>>,
     <<71231, 71232>>, <<71339, 71339>>, <<71341, 71341>>, <<71344, 71349>>,
     <<71351, 71351>>, <<71453, 71455>>, <<71458, 71461>>, <<71463, 71467>>,
     <<71727, 71735>>, <<71737, 71738>>, <<71995, 71996>>, <<71998, 71998>>,
     <<72003, 72003>>, <<72148, 72151>>, <<72154, 72155>>, <<72160, 72160>>,
     <<72193, 72202>>, <<72243, 72248>>, <<72251, 72254>>, <<72263, 72263>>,
     <<72273, 72278>>, <<72281, 72283>>, <<72330, 72342>>, <<72344, 72345>>,
     <<72752, 72758>>, <<72760, 72765>>, <<72767, 72767>>, <<72850, 72871>>,
     <<72874, 72880>>, <<72882, 72883>>, <<72885, 72886>>, <<73009, 73014>>,
     <<73018, 73018>>, <<73020, 73021>>, <<73023, 73029>>, <<73031, 73031>>,
     <<73104, 73105>>, <<73109, 73109>>, <<73111, 73111>>, <<73459, 73460>>,
     <<78896, 78904>>, <<92912, 92916>>, <<92976, 92982>>, <<92992, 92995>>,
     <<94031, 94031>>, <<94095, 94111>>, <<94176, 94177>>, <<94179, 94180>>,
     <<110576, 110579>>, <<110581, 110587>>, <<110589, 110590>>,
     <<113821, 113822>>, <<113824, 113827>>, <<118528, 118573>>,
     <<118576, 118598>>, <<119143, 119145>>, <<119155, 119170>>,
     <<119173, 119179>>, <<119210, 119213>>, <<119362, 119364>>,
     <<121344, 121398>>, <<121403, 121452>>, <<121461, 121461>>,
     <<121476, 121476>>, <<121499, 121503>>, <<121505, 121519>>,
     <<122880, 122886>>, <<122888, 122904>>, <<122907, 122913>>,
     <<122915, 122916>>, <<122918, 122922>>, <<123184, 123197>>,
     <<123566, 123566>>, <<123628, 123631>>, <<125136, 125142>>,
     <<125252, 125259>>, <<127995, 127999>>, <<917505, 917505>>,
     <<917536, 917631>>, <<917760, 917999>>}

\* The code points <<first, last>> for which str.isprintable() is false: the
\* controls, formats, surrogates, private use, unassigned code points and
\* the separators other than the space.
NonPrintableRanges ==
    {<<0, 31>>, <<127, 160>>, <<173, 173>>, <<888, 889>>, <<896, 899>>,
     <<907, 907>>, <<909, 909>>, <<930, 930>>, <<1328, 1328>>,
     <<1367, 1368>>, <<1419, 1420>>, <<1424, 1424>>, <<1480, 1487>>,
     <<1515, 1518>>, <<1525, 1541>>, <<1564, 1564>>, <<1757, 1757>>,
     <<1806, 1807>>, <<1867, 1868>>, <<1970, 1983>>, <<2043, 2044>>,
     <<2094, 2095>>, <<2111, 2111>>, <<2140, 2141>>, <<2143, 2143>>,
     <<2155, 2159>>, <<2191, 2199>>, <<2274, 2274>>, <<2436, 2436>>,
     <<2445, 2446>>, <<2449, 2450>>, <<2473, 2473>>, <<2481, 2481>>,
     <<2483, 2485>>, <<2490, 2491>>, <<2501, 2502>>, <<2505, 2506>>,
     <<2511, 2518>>, <<2520, 2523>>, <<2526, 2526>>, <<2532, 2533>>,
     <<2559, 2560>>, <<2564, 2564>>, <<2571, 2574>>, <<2577, 2578>>,
     <<2601, 2601>>, <<2609, 2609>>, <<2612, 2612>>, <<2615, 2615>>,
     <<2618, 2619>>, <<2621, 2621>>, <<2627, 2630>>, <<2633, 2634>>,
     <<2638, 2640>>, <<2642, 2648>>, <<2653, 2653>>, <<2655, 2661>>,
     <<2679, 2688>>, <<2692, 2692>>, <<2702, 2702>>, <<2706, 2706>>,
     <<2729, 2729>>, <<2737, 2737>>, <<2740, 2740>>, <<2746, 2747>>,
     <<2758, 2758>>, <<2762, 2762>>, <<2766, 2767>>, <<2769, 2783>>,
     <<2788, 2789>>, <<2802, 2808>>, <<2816, 2816>>, <<2820, 2820>>,
     <<2829, 2830>>, <<2833, 2834>>, <<2857, 2857>>, <<2865, 2865>>,
     <<2868, 2868>>, <<2874, 2875>>, <<2885, 2886>>, <<2889, 2890>>,
     <<2894, 2900>>, <<2904, 2907>>, <<2910, 2910>>, <<2916, 2917>>,
     <<2936, 2945>>, <<2948, 2948>>, <<2955, 2957>>, <<2961, 2961>>,
     <<2966, 2968>>, <<2971, 2971>>, <<2973, 2973>>, <<2976, 2978>>,
     <<2981, 2983>>, <<2987, 2989>>, <<3002, 3005>>, <<3011, 3013>>,
     <<3017, 3017>>, <<3022, 3023>>, <<3025, 3030>>, <<3032, 3045>>,
     <<3067, 3071>>, <<3085, 3085>>, <<3089, 3089>>, <<3113, 3113>>,
     <<3130, 3131>>, <<3141, 3141>>, <<3145, 3145>>, <<3150, 3156>>,
     <<3159, 3159>>, <<3163, 3164>>, <<3166, 3167>>, <<3172, 3173>>,
     <<3184, 3190>>, <<3213, 3213>>, <<3217, 3217>>, <<3241, 3241>>,
     <<3252, 3252>>, <<3258, 3259>>, <<3269, 3269>>, <<3273, 3273>>,
     <<3278, 3284>>, <<3287, 3292>>, <<3295, 3295>>, <<3300, 3301>>,
     <<3312, 3312>>, <<3315, 3327>>, <<3341, 3341>>, <<3345, 3345>>,
     <<3397, 3397>>, <<3401, 3401>>, <<3408, 3411>>, <<3428, 3429>>,
     <<3456, 3456>>, <<3460, 3460>>, <<3479, 3481>>, <<3506, 3506>>,
     <<3516, 3516>>, <<3518, 3519>>, <<3527, 3529>>, <<3531, 3534>>,
     <<3541, 3541>>, <<3543, 3543>>, <<3552, 3557>>, <<3568, 3569>>,
     <<3573, 3584>>, <<3643, 3646>>, <<3676, 3712>>, <<3715, 3715>>,
     <<3717, 3717>>, <<3723, 3723>>, <<3748, 3748>>, <<3750, 3750>>,
     <<3774, 3775>>, <<3781, 3781>>, <<3783, 3783>>, <<3790, 3791>>,
     <<3802, 3803>>, <<3808, 3839>>, <<3912, 3912>>, <<3949, 3952>>,
     <<3992, 3992>>, <<4029, 4029>>, <<4045, 4045>>, <<4059, 4095>>,
     <<4294, 4294>>, <<4296, 4300>>, <<4302, 4303>>, <<4681, 4681>>,
     <<4686, 4687>>, <<4695, 4695>>, <<4697, 4697>>, <<4702, 4703>>,
     <<4745, 4745>>, <<4750, 4751>>, <<4785, 4785>>, <<4790, 4791>>,
     <<4799, 4799>>, <<4801, 4801>>, <<4806, 4807>>, <<4823, 4823>>,
     <<4881, 4881>>, <<4886, 4887>>, <<4955, 4956>>, <<4989, 4991>>,
     <<5018, 5023>>, <<5110, 5111>>, <<5118, 5119>>, <<5760, 5760>>,
     <<5789, 5791>>, <<5881, 5887>>, <<5910, 5918>>, <<5943, 5951>>,
     <<5972, 5983>>, <<5997, 5997>>, <<6001, 6001>>, <<6004, 6015>>,
     <<6110, 6111>>, <<6122, 6127>>, <<6138, 6143>>, <<6158, 6158>>,
     <<6170, 6175>>, <<6265, 6271>>, <<6315, 6319>>, <<6390, 6399>>,
     <<6431, 6431>>, <<6444, 6447>>, <<6460, 6463>>, <<6465, 6467>>,
     <<6510, 6511>>, <<6517, 6527>>, <<6572, 6575>>, <<6602, 6607>>,
     <<6619, 6621>>, <<6684, 6685>>, <<6751, 6751>>, <<6781, 6782>>,
     <<6794, 6799>>, <<6810, 6815>>, <<6830, 6831>>, <<6863, 6911>>,
     <<6989, 6991>>, <<7039, 7039>>, <<7156, 7163>>, <<7224, 7226>>,
     <<7242, 7244>>, <<7305, 7311>>, <<7355, 7356>>, <<7368, 7375>>,
     <<7419, 7423>>, <<7958, 7959>>, <<7966, 7967>>, <<8006, 8007>>,
     <<8014, 8015>>, <<8024, 8024>>, <<8026, 8026>>, <<8028, 8028>>,
     <<8030, 8030>>, <<8062, 8063>>, <<8117, 8117>>, <<8133, 8133>>,
     <<8148, 8149>>, <<8156, 8156>>, <<8176, 8177>>, <<8181, 8181>>,
     <<8191, 8207>>, <<8232, 8239>>, <<8287, 8303>>, <<8306, 8307>>,
     <<8335, 8335>>, <<8349, 8351>>, <<8385, 8399>>, <<8433, 8447>>,
     <<8588, 8591>>, <<9255, 9279>>, <<9291, 9311>>, <<11124, 11125>>,
     <<11158, 11158>>, <<11508, 11512>>, <<11558, 11558>>, <<11560, 11564>>,
     <<11566, 11567>>, <<11624, 11630>>, <<11633, 11646>>, <<11671, 11679>>,
     <<11687, 11687>>, <<11695, 11695>>, <<11703, 11703>>, <<11711, 11711>>,
     <<11719, 11719>>, <<11727, 11727>>, <<11735, 11735>>, <<11743, 11743>>,
     <<11870, 11903>>, <<11930, 11930>>, <<12020, 12031>>, <<12246, 12271>>,
     <<12284, 12288>>, <<12352, 12352>>, <<12439, 12440>>, <<12544, 12548>>,
     <<12592, 12592>>, <<12687, 12687>>, <<12772, 12783>>, <<12831, 12831>>,
     <<42125, 42127>>, <<42183, 42191>>, <<42540, 42559>>, <<42744, 42751>>,
     <<42955, 42959>>, <<42962, 42962>>, <<42964, 42964>>, <<42970, 42993>>,
     <<43053, 43055>>, <<43066, 43071>>, <<43128, 43135>>, <<43206, 43213>>,
     <<43226, 43231>>, <<43348, 43358>>, <<43389, 43391>>, <<43470, 43470>>,
     <<43482, 43485>>, <<43519, 43519>>, <<43575, 43583>>, <<43598, 43599>>,
     <<43610, 43611>>, <<43715, 43738>>, <<43767, 43776>>, <<43783, 43784>>,
     <<43791, 43792>>, <<43799, 43807>>, <<43815, 43815>>, <<43823, 43823>>,
     <<43884, 43887>>, <<44014, 44015>>, <<44026, 44031>>, <<55204, 55215>>,
     <<55239, 55242>>, <<55292, 63743>>, <<64110, 64111>>, <<64218, 64255>>,
     <<64263, 64274>>, <<64280, 64284>>, <<64311, 64311>>, <<64317, 64317>>,
     <<64319, 64319>>, <<64322, 64322>>, <<64325, 64325>>, <<64451, 64466>>,
     <<64912, 64913>>, <<64968, 64974>>, <<64976, 65007>>, <<65050, 65055>>,
     <<65107, 65107>>, <<65127, 65127>>, <<65132, 65135>>, <<65141, 65141>>,
     <<65277, 65280>>, <<65471, 65473>>, <<65480, 65481>>, <<65488, 65489>>,
     <<65496, 65497>>, <<65501, 65503>>, <<65511, 65511>>, <<65519, 65531>>,
     <<65534, 65535>>, <<65548, 65548>>, <<65575, 65575>>, <<65595, 65595>>,
     <<65598, 65598>>, <<65614, 65615>>, <<65630, 65663>>, <<65787, 65791>>,
     <<65795, 65798>>, <<65844, 65846>>, <<65935, 65935>>, <<65949, 65951>>,
     <<65953, 65999>>, <<66046, 66175>>, <<66205, 66207>>, <<66257, 66271>>,
     <<66300, 66303>>, <<66340, 66348>>, <<66379, 66383>>, <<66427, 66431>>,
     <<66462, 66462>>, <<66500, 66503>>, <<66518, 66559>>, <<66718, 66719>>,
     <<66730, 66735>>, <<66772, 66775>>, <<66812, 66815>>, <<66856, 66863>>,
     <<66916, 66926>>, <<66939, 66939>>, <<66955, 66955>>, <<66963, 66963>>,
     <<66966, 66966>>, <<66978, 66978>>, <<66994, 66994>>, <<67002, 67002>>,
     <<67005, 67071>>, <<67383, 67391>>, <<67414, 67423>>, <<67432, 67455>>,
     <<67462, 67462>>, <<67505, 67505>>, <<67515, 67583>>, <<67590, 67591>>,
     <<67593, 67593>>, <<67638, 67638>>, <<67641, 67643>>, <<67645, 67646>>,
     <<67670, 67670>>, <<67743, 67750>>, <<67760, 67807>>, <<67827, 67827>>,
     <<67830, 67834>>, <<67868, 67870>>, <<67898, 67902>>, <<67904, 67967>>,
     <<68024, 68027>>, <<68048, 68049>>, <<68100, 68100>>, <<68103, 68107>>,
     <<68116, 68116>>, <<68120, 68120>>, <<68150, 68151>>, <<68155, 68158>>,
     <<68169, 68175>>, <<68185, 68191>>, <<68256, 68287>>, <<68327, 68330>>,
     <<68343, 68351>>, <<68406, 68408>>, <<68438, 68439>>, <<68467, 68471>>,
     <<68498, 68504>>, <<68509, 68520>>, <<68528, 68607>>, <<68681, 68735>>,
     <<68787, 68799>>, <<68851, 68857>>, <<68904, 68911>>, <<68922, 69215>>,
     <<69247, 69247>>, <<69290, 69290>>, <<69294, 69295>>, <<69298, 69375>>,
     <<69416, 69423>>, <<69466, 69487>>, <<69514, 69551>>, <<69580, 69599>>,
     <<69623, 69631>>, <<69710, 69713>>, <<69750, 69758>>, <<69821, 69821>>,
     <<69827, 69839>>, <<69865, 69871>>, <<69882, 69887>>, <<69941, 69941>>,
     <<69960, 69967>>, <<70007, 70015>>, <<70112, 70112>>, <<70133, 70143>>,
     <<70162, 70162>>, <<70207, 70271>>, <<70279, 70279>>, <<70281, 70281>>,
     <<70286, 70286>>, <<70302, 70302>>, <<70314, 70319>>, <<70379, 70383>>,
     <<70394, 70399>>, <<70404, 70404>>, <<70413, 70414>>, <<70417, 70418>>,
     <<70441, 70441>>, <<70449, 70449>>, <<70452, 70452>>, <<70458, 70458>>,
     <<70469, 70470>>, <<70473, 70474>>, <<70478, 70479>>, <<70481, 70486>>,
     <<70488, 70492>>, <<70500, 70501>>, <<70509, 70511>>, <<70517, 70655>>,
     <<70748, 70748>>, <<70754, 70783>>, <<70856, 70863>>, <<70874, 71039>>,
     <<71094, 71095>>, <<71134, 71167>>, <<71237, 71247>>, <<71258, 71263>>,
     <<71277, 71295>>, <<71354, 71359>>, <<71370, 71423>>, <<71451, 71452>>,
     <<71468, 71471>>, <<71495, 71679>>, <<71740, 71839>>, <<71923, 71934>>,
     <<71943, 71944>>, <<71946, 71947>>, <<71956, 71956>>, <<71959, 71959>>,
     <<71990, 71990>>, <<71993, 71994>>, <<72007, 72015>>, <<72026, 72095>>,
     <<72104, 72105>>, <<72152, 72153>>, <<72165, 72191>>, <<72264, 72271>>,
     <<72355, 72367>>, <<72441, 72703>>, <<72713, 72713>>, <<72759, 72759>>,
     <<72774, 72783>>, <<72813, 72815>>, <<72848, 72849>>, <<72872, 72872>>,
     <<72887, 72959>>, <<72967, 72967>>, <<72970, 72970>>, <<73015, 73017>>,
     <<73019, 73019>>, <<73022, 73022>>, <<73032, 73039>>, <<73050, 73055>>,
     <<73062, 73062>>, <<73065, 73065>>, <<73103, 73103>>, <<73106, 73106>>,
     <<73113, 73119>>, <<73130, 73439>>, <<73465, 73647>>, <<73649, 73663>>,
     <<73714, 73726>>, <<74650, 74751>>, <<74863, 74863>>, <<74869, 74879>>,
     <<75076, 77711>>, <<77811, 77823>>, <<78895, 82943>>, <<83527, 92159>>,
     <<92729, 92735>>, <<92767, 92767>>, <<92778, 92781>>, <<92863, 92863>>,
     <<92874, 92879>>, <<92910, 92911>>, <<92918, 92927>>, <<92998, 93007>>,
     <<93018, 93018>>, <<93026, 93026>>, <<93048, 93052>>, <<93072, 93759>>,
     <<93851, 93951>>, <<94027, 94030>>, <<94088, 94094>>, <<94112, 94175>>,
     <<94181, 94191>>, <<94194, 94207>>, <<100344, 100351>>,
     <<101590, 101631>>, <<101641, 110575>>, <<110580, 110580>>,
     <<110588, 110588>>, <<110591, 110591>>, <<110883, 110927>>,
     <<110931, 110947>>, <<110952, 110959>>, <<111356, 113663>>,
     <<113771, 113775>>, <<113789, 113791>>, <<113801, 113807>>,
     <<113818, 113819>>, <<113824, 118527>>, <<118574, 118575>>,
     <<118599, 118607>>, <<118724, 118783>>, <<119030, 119039>>,
     <<119079, 119080>>, <<119155, 119162>>, <<119275, 119295>>,
     <<119366, 119519>>, <<119540, 119551>>, <<119639, 119647>>,
     <<119673, 119807>>, <<119893, 119893>>, <<119965, 119965>>,
     <<119968, 119969>>, <<119971, 119972>>, <<119975, 119976>>,
     <<119981, 119981>>, <<119994, 119994>>, <<119996, 119996>>,
     <<120004, 120004>>, <<120070, 120070>>, <<120075, 120076>>,
     <<120085, 120085>>, <<120093, 120093>>, <<120122, 120122>>,
     <<120127, 120127>>, <<120133, 120133>>, <<120135, 120137>>,
     <<120145, 120145>>, <<120486, 120487>>, <<120780, 120781>>,
     <<121484, 121498>>, <<121504, 121504>>, <<121520, 122623>>,
     <<122655, 122879>>, <<122887, 122887>>, <<122905, 122906>>,
     <<122914, 122914>>, <<122917, 122917>>, <<122923, 123135>>,
     <<123181, 123183>>, <<123198, 123199>>, <<123210, 123213>>,
     <<123216, 123535>>, <<123567, 123583>>, <<123642, 123646>>,
     <<123648, 124895>>, <<124903, 124903>>, <<124908, 124908>>,
     <<124911, 124911>>, <<124927, 124927>>, <<125125, 125126>>,
     <<125143, 125183>>, <<125260, 125263>>, <<125274, 125277>>,
     <<125280, 126064>>, <<126133, 126208>>, <<126270, 126463>>,
     <<126468, 126468>>, <<126496, 126496>>, <<126499, 126499>>,
     <<126501, 126502>>, <<126504, 126504>>, <<126515, 126515>>,
     <<126520, 126520>>, <<126522, 126522>>, <<126524, 126529>>,
     <<126531, 126534>>, <<126536, 126536>>, <<126538, 126538>>,
     <<126540, 126540>>, <<126544, 126544>>, <<126547, 126547>>,
     <<126549, 126550>>, <<126552, 126552>>, <<126554, 126554>>,
     <<126556, 126556>>, <<126558, 126558>>, <<126560, 126560>>,
     <<126563, 126563>>, <<126565, 126566>>, <<126571, 126571>>,
     <<126579, 126579>>, <<126584, 126584>>, <<126589, 126589>>,
     <<126591, 126591>>, <<126602, 126602>>, <<126620, 126624>>,
     <<126628, 126628>>, <<126634, 126634>>, <<126652, 126703>>,
     <<126706, 126975>>, <<127020, 127023>>, <<127124, 127135>>,
     <<127151, 127152>>, <<127168, 127168>>, <<127184, 127184>>,
     <<127222, 127231>>, <<127406, 127461>>, <<127491, 127503>>,
     <<127548, 127551>>, <<127561, 127567>>, <<127570, 127583>>,
     <<127590, 127743>>, <<128728, 128732>>, <<128749, 128751>>,
     <<128765, 128767>>, <<128884, 128895>>, <<128985, 128991>>,
     <<129004, 129007>>, <<129009, 129023>>, <<129036, 129039>>,
     <<129096, 129103>>, <<129114, 129119>>, <<129160, 129167>>,
     <<129198, 129199>>, <<129202, 129279>>, <<129620, 129631>>,
     <<129646, 129647>>, <<129653, 129655>>, <<129661, 129663>>,
     <<129671, 129679>>, <<129709, 129711>>, <<129723, 129727>>,
     <<129734, 129743>>, <<129754, 129759>>, <<129768, 129775>>,
     <<129783, 129791>>, <<129939, 129939>>, <<129995, 130031>>,
     <<130042, 131071>>, <<173792, 173823>>, <<177977, 177983>>,
     <<178206, 178207>>, <<183970, 183983>>, <<191457, 194559>>,
     <<195102, 196607>>, <<201547, 917759>>, <<918000, 1114111>>}

RECURSIVE ConcatAll(_)
\* "".join(parts)
ConcatAll(parts) ==
    IF parts = << >> THEN EmptyStr ELSE parts[1] \o ConcatAll(Tail(parts))

\* n lies in one of the ranges <<first, last>>.
InRanges(n, ranges) == \E r \in ranges : r[1] <= n /\ n <= r[2]

\* The letters of Latin-1 that str.lower() changes, A to Z and the accented
\* capitals (code points 192 to 222 without the multiplication sign), each
\* mapped to the letter 32 code points above it.
UpperToLower ==
    [c \in {Chr(n) : n \in (65..90) \cup ((192..222) \ {215})} |-> Chr(Ord(c) + 32)]

\* The capital sigma, the two small ones it is lowered to, and the capital
\* I with a dot above, which is lowered to an i and a combining dot above.
CapitalSigma == CharOf(931)

FinalSigma == CharOf(962)

SmallSigma == CharOf(963)

CapitalDottedI == CharOf(304)

CombiningDot == CharOf(775)

\* The character at s[i] is skipped when the neighbours of a sigma are
\* looked at.
Ignorable(s, i) == InRanges(Cp(s[i]), IgnorableRanges)

\* The sigma at s[i] ends a word: the nearest character before it that is
\* not case-ignorable is cased, and the nearest one behind it is not.
IsFinalSigma(s, i) ==
    LET before == {j \in 1..(i - 1) : ~Ignorable(s, j)}
        after  == {j \in (i + 1)..Len(s) : ~Ignorable(s, j)}
    IN  /\ before # {}
        /\ InRanges(Cp(s[SetMax(before)]), CasedRanges)
        /\ after # {} => ~InRanges(Cp(s[SetMin(after)]), CasedRanges)

\* What str.lower() writes for the character of code point n beyond Latin-1.
LowerOf(c, n) ==
    IF \E r \in LowerRanges : r[1] <= n /\ n <= r[2] /\ (n - r[1]) % r[3] = 0
    THEN CharOf(n + (CHOOSE r \in LowerRanges :
                        r[1] <= n /\ n <= r[2] /\ (n - r[1]) % r[3] = 0)[4])
    ELSE c

\* What str.lower() writes for the character at s[i].
LowerAt(s, i) ==
    IF s[i] \in DOMAIN UpperToLower THEN <<UpperToLower[s[i]]>>
    ELSE IF Len(s[i]) = 1 THEN <<s[i]>>
    ELSE IF s[i] = CapitalSigma
    THEN <<IF IsFinalSigma(s, i) THEN FinalSigma ELSE SmallSigma>>
    ELSE IF s[i] = CapitalDottedI THEN <<"i", CombiningDot>>
    ELSE <<LowerOf(s[i], Cp(s[i]))>>

\* str.lower()
Lower(s) == ConcatAll([i \in 1..Len(s) |-> LowerAt(s, i)])

\* The characters str.strip() removes, those for which str.isspace() holds:
\* \t, \n, \x0b, \x0c, \r, \x1c to \x1f, the space, \x85, \xa0, U+1680,
\* U+2000 to U+200A, U+2028, U+2029, U+202F, U+205F and U+3000.
Whitespace ==
    {CharOf(n) : n \in (9..13) \cup (28..32) \cup {133, 160, 5760} \cup (8192..8202)
                          \cup {8232, 8233, 8239, 8287, 12288}}

\* str.strip()
Strip(s) ==
    LET keep == {i \in 1..Len(s) : s[i] \notin Whitespace}
    IN  IF keep = {} THEN EmptyStr ELSE SubSeq(s, SetMin(keep), SetMax(keep))

\* str.lstrip(c) for a single character c
LStrip(s, c) ==
    LET keep == {i \in 1..Len(s) : s[i] # c}
    IN  IF keep = {} THEN EmptyStr ELSE SubSeq(s, SetMin(keep), Len(s))

\* str.rfind(c) for a single character c, 1-based; 0 when absent (Python: -1).
RFind(s, c) ==
    LET at == {i \in 1..Len(s) : s[i] = c}
    IN  IF at = {} THEN 0 ELSE SetMax(at)

\* s.endswith(t)
EndsWith(s, t) ==
    Len(s) >= Len(t) /\ SubSeq(s, Len(s) - Len(t) + 1, Len(s)) = t

\* t in s
Contains(s, t) ==
    \E i \in 0..(Len(s) - Len(t)) : SubSeq(s, i + 1, i + Len(t)) = t

\* s.split(c)[0] for a single character c
SplitFirst(s, c) ==
    LET at == {i \in 1..Len(s) : s[i] = c}
    IN  IF at = {} THEN s ELSE SubSeq(s, 1, SetMin(at) - 1)

\* os.path.splitext (posixpath): <<root, ext>>.  The extension starts at the
\* last dot after the last slash, unless only dots precede it in the file name.
splitext(p) ==
    LET sepIndex == RFind(p, "/")
        dotIndex == RFind(p, ".")
    IN  IF /\ dotIndex > sepIndex
           /\ \E i \in (sepIndex + 1)..(dotIndex - 1) : p[i] # "."
        THEN <<SubSeq(p, 1, dotIndex - 1), SubSeq(p, dotIndex, Len(p))>>
        ELSE <<p, EmptyStr>>

\* os.path.basename (posixpath): what follows the last slash.
basename(p) == SubSeq(p, RFind(p, "/") + 1, Len(p))

RECURSIVE IntToStr(_)
\* str(n) for an int n
IntToStr(n) ==
    LET digit == <<"0", "1", "2", "3", "4", "5", "6", "7", "8", "9">>
    IN  IF n < 0 THEN <<"-">> \o IntToStr(-n)
        ELSE IF n < 10 THEN <<digit[n + 1]>>
        ELSE IntToStr(n \div 10) \o <<digit[(n % 10) + 1]>>

\* ------------------------------------------------------------------------
\* Format resolution (process_resource, first part)
\* ------------------------------------------------------------------------

\* The synonym table.
format_map ==
    (<<"p", "d", "f">> :> <<"p", "d", "f">>) @@
    (<<"d", "o", "c">> :> <<"d", "o", "c">>) @@
    (<<"d", "o", "c", "x">> :> <<"d", "o", "c", "x">>) @@
    (<<"x", "l", "s">> :> <<"x", "l", "s">>) @@
    (<<"x", "l", "s", "x">> :> <<"x", "l", "s", "x">>) @@
    (<<"j", "p", "e", "g">> :> <<"j", "p", "e", "g">>) @@
    (<<"j", "p", "g">> :> <<"j", "p", "e", "g">>) @@
    (<<"p", "n", "g">> :> <<"p", "n", "g">>) @@
    (<<"t", "i", "f", "f">> :> <<"t", "i", "f", "f">>) @@
    (<<"t", "i", "f">> :> <<"t", "i", "f", "f">>) @@
    (<<"b", "m", "p">> :> <<"b", "m", "p">>) @@
    (<<"g", "i", "f">> :> <<"g", "i", "f">>) @@
    (<<"j", "s", "o", "n">> :> <<"j", "s", "o", "n">>)

\* fmt = (resource.get("format") or "").lower().strip(); fmt = format_map.get(fmt, fmt)
\* Each call of the chain is made once, on the value of the call before it.
DeclaredFmt(res) ==
    CHOOSE tag \in {DictGet(format_map, f, f) :
                      f \in {Strip(low) : low \in {Lower(PyOr(res.format, EmptyStr))}}} : TRUE

\* url = resource.get("url", "") or resource.get("name", "")
UrlOrName(res) == PyOr(res.url, res.name)

\* _, ext = os.path.splitext(url); ext = ext.lower().lstrip("."); ext_fmt = format_map.get(ext, ext)
ExtFmt(url) ==
    CHOOSE ext_fmt \in {DictGet(format_map, ext, ext) :
                          ext \in {LStrip(low, ".") :
                                     low \in {Lower(e) : e \in {splitext(url)[2]}}}} : TRUE

\* A mutant of ResolveFmt: the extension wins only over a declared format that
\* is not itself a known tag.
ResolveFmtDeclaredFirst(res) ==
    LET f == DeclaredFmt(res)
        e == ExtFmt(UrlOrName(res))
    IN  IF e # f /\ e \in DictValues(format_map) /\ f \notin DictValues(format_map)
        THEN e ELSE f

\* A mutant of ResolveFmt: any non-empty extension overrides the declared format.
ResolveFmtAnyExt(res) ==
    LET f == DeclaredFmt(res)
        e == ExtFmt(UrlOrName(res))
    IN  IF e # f /\ e # EmptyStr THEN e ELSE f

\* if ext_fmt != fmt and ext_fmt in format_map.values(): fmt = ext_fmt
ResolveFmt(res) ==
    CHOOSE tag \in {IF e # f /\ e \in DictValues(format_map) THEN e ELSE f :
                      f \in {DeclaredFmt(res)}, e \in {ExtFmt(UrlOrName(res))}} : TRUE

\* ------------------------------------------------------------------------
\* Resources, files and what the extraction libraries see in them
\* ------------------------------------------------------------------------

\* Bounds of the model.
MaxPages == 5

MaxCols == 2

MaxRows == 2

MaxSheets == 2

\* The two copies of the pipeline in the repository: the functions of
\* processing.py / extractors.py / storage.py ("module") and the methods of
\* DocuvisionPlugin in plugin.py ("plugin").
Impls == {"module", "plugin"}

\* All sequences over S of length at most n.
SeqUpTo(S, n) == UNION {[1..k -> S] : k \in 0..n}

\* Messages of the exceptions the libraries raise.
ErrMsgs == {<<"E", "1">>, <<"E", "2">>}

\* ResourceUpload(resource).get_path(resource["id"])
get_path(id) == <<"/", "s", "/">> \o id

\* Python cell values as the spreadsheet readers return them.
CNone == [n |-> 0, s |-> EmptyStr, t |-> "none"]

CStr(s) == [n |-> 0, s |-> s, t |-> "str"]

CInt(n) == [n |-> n, s |-> EmptyStr, t |-> "int"]

\* A float with the integral value n.
CFloat(n) == [n |-> n, s |-> EmptyStr, t |-> "float"]

\* A float that is not integral, given by its repr.
CFrac(r) == [n |-> 0, s |-> r, t |-> "float"]

\* str(cell) for a cell value; a float with an integral value prints as "n.0".
PyStr(c) ==
    CASE c.t = "none" -> <<"N", "o", "n", "e">>
      [] c.t = "str" -> c.s
      [] c.t = "int" -> IntToStr(c.n)
      [] c.t = "float" -> IF c.s = EmptyStr THEN IntToStr(c.n) \o <<".", "0">> ELSE c.s

\* The file behind a resource.  kind is what the bytes really are; the other
\* fields are what the matching library reads from them:
\*   pages       PyPDF2: page.extract_text() of each page (None or a str)
\*   ocr         pytesseract: the text of one rendered page / of the image
\*   paragraphs  python-docx: the paragraphs' texts
\*   bytes       textract / antiword: output bytes ("xFF" is a byte that is
\*               not valid UTF-8)
\*   sheets      the workbook: sheets of rows of cells
\*   content     the text of a manifest
File(exists, size, kind) ==
    [exists |-> exists, size |-> size, kind |-> kind, pages |-> << >>, ocr |-> EmptyStr,
     paragraphs |-> << >>, bytes |-> << >>, sheets |-> << >>, content |-> EmptyStr]

MissingFile == File(FALSE, 0, "none")

ZeroByteFile == File(TRUE, 0, "none")

PdfFile(pages, ocr) == [File(TRUE, 1, "pdf") EXCEPT !.pages = pages, !.ocr = ocr]

DocxFile(paragraphs) == [File(TRUE, 1, "docx") EXCEPT !.paragraphs = paragraphs]

DocFile(bytes) == [File(TRUE, 1, "doc") EXCEPT !.bytes = bytes]

WorkbookFile(kind, sheets) == [File(TRUE, 1, kind) EXCEPT !.sheets = sheets]

ImageFile(ocr) == [File(TRUE, 1, "image") EXCEPT !.ocr = ocr]

JsonFile(content) == [File(TRUE, 1, "json") EXCEPT !.content = content]

\* page.extract_text() results.
PageTexts == {None, EmptyStr, <<"a", "b", "c">>}

OcrTexts == {EmptyStr, <<"s", "c", "a", "n">>}

PdfFiles == {PdfFile(p, o) : p \in SeqUpTo(PageTexts, MaxPages), o \in OcrTexts}

DocFiles == {DocFile(b) : b \in {<< >>, <<"h", "i">>, <<"h", "xFF">>}}

Cells == {CStr(<<"a">>), CInt(1), CNone}

Rows == SeqUpTo(Cells, MaxCols)

SampleRows == {<< >>, <<CInt(1)>>, <<CStr(<<"a">>), CNone>>, <<CInt(-25), CFrac(<<"1", ".", "5">>)>>}

Sheets == {<<r>> : r \in Rows} \cup SeqUpTo(SampleRows, MaxRows)

SampleSheets == {<< >>, <<<<CStr(<<"a">>)>>>>, <<<<CNone, CInt(2)>>>>}

\* The workbook of the spreadsheet example: one sheet, rows [a, b] and [1, 2].
ExampleWorkbook ==
    << << <<CStr(<<"a">>), CStr(<<"b">>)>>, <<CStr(<<"1">>), CStr(<<"2">>)>> >> >>

Workbooks ==
    {<<s>> : s \in Sheets} \cup (SeqUpTo(SampleSheets, MaxSheets) \ {<< >>})
        \cup {ExampleWorkbook}

WorkbookFiles == {WorkbookFile(k, w) : k \in {"xlsx", "xls"}, w \in Workbooks}

ImageFiles == {ImageFile(o) : o \in OcrTexts}

\* ------------------------------------------------------------------------
\* The text each extraction strategy builds
\* ------------------------------------------------------------------------

RECURSIVE Join(_, _)
\* sep.join(parts)
Join(parts, sep) ==
    IF parts = << >> THEN EmptyStr
    ELSE IF Len(parts) = 1 THEN parts[1]
    ELSE parts[1] \o sep \o Join(Tail(parts), sep)

RECURSIVE ConcatEach(_, _)
\* text = ""; for p in parts: text += p + end
ConcatEach(parts, end) ==
    IF parts = << >> THEN EmptyStr
    ELSE parts[1] \o end \o ConcatEach(Tail(parts), end)

\* The quality gate of extract_text_pdf: len(text) < 5 sends the PDF to OCR.
MinTextLen == 5

\* for page in pdf_reader.pages: text += (page.extract_text() or "") + "\n"
PdfDirectText(pages) ==
    ConcatEach([i \in 1..Len(pages) |-> PyOr(pages[i], EmptyStr)], <<"\n">>)

\* A mutant of NeedsOcr: the gate compares with <= instead of <.
NeedsOcrInclusive(t) == Len(t) <= MinTextLen

\* if len(text) < 5
NeedsOcr(t) == Len(t) < MinTextLen

\* extract_text_tesseract, when rendering and OCR succeed: one text per page
\* image, joined by newlines.
TesseractText(f) == Join([i \in 1..Len(f.pages) |-> f.ocr], <<"\n">>)

\* "\n".join([p.text for p in doc.paragraphs])
DocxText(paragraphs) == Join(paragraphs, <<"\n">>)

\* bytes.decode("utf-8", errors="replace")
Decode(bytes) ==
    [i \in 1..Len(bytes) |-> IF bytes[i] = "xFF" THEN "uFFFD" ELSE bytes[i]]

\* A mutant of RowText: an empty cell is rendered by str(None).
RowTextNone(row) ==
    Join([i \in 1..Len(row) |-> PyStr(row[i])], <<"\t">>) \o <<"\n">>

\* "\t".join([str(cell) if cell is not None else "" for cell in row]) + "\n"
RowText(row) ==
    Join([i \in 1..Len(row) |-> IF row[i] # CNone THEN PyStr(row[i]) ELSE EmptyStr],
         <<"\t">>) \o <<"\n">>

\* for ws in wb.worksheets: for row in ws.iter_rows(values_only=True): text += ...
SheetsText(sheets) ==
    ConcatAll([s \in 1..Len(sheets) |->
                  ConcatAll([r \in 1..Len(sheets[s]) |-> RowText(sheets[s][r])])])

\* The values openpyxl returns (data_only=True, values_only=True): an empty
\* cell is None, a number keeps its type.
OpenpyxlValues(sheets) == sheets

\* The values xlrd's sheet.row_values returns: an empty cell is '', every
\* number is a float.
XlrdValues(sheets) ==
    [s \in 1..Len(sheets) |->
        [r \in 1..Len(sheets[s]) |->
            [c \in 1..Len(sheets[s][r]) |->
                LET v == sheets[s][r][c]
                IN  CASE v.t = "none" -> CStr(EmptyStr)
                      [] v.t = "int" -> CFloat(v.n)
                      [] OTHER -> v]]]

\* A mutant of DocCompositeMsg: only the last error is reported.
DocLastErrorMsg(textract_err, antiword_err) ==
    <<"F", "a", "i", "l", "e", "d", " ", "t", "o", " ", "e", "x", "t", "r", "a", "c", "t", " ", "D", "O", "C", " ", "t", "e", "x", "t", ":", " ", "a", "n", "t", "i", "w", "o", "r", "d", " ", "e", "r", "r", "o", "r", ":", " ">> \o antiword_err

\* f"Failed to extract DOC text: textract error: {textract_err}, antiword error: {antiword_err}"
DocCompositeMsg(textract_err, antiword_err) ==
    <<"F", "a", "i", "l", "e", "d", " ", "t", "o", " ", "e", "x", "t", "r", "a", "c", "t", " ", "D", "O", "C", " ", "t", "e", "x", "t", ":", " ", "t", "e", "x", "t", "r", "a", "c", "t", " ", "e", "r", "r", "o", "r", ":", " ">> \o textract_err
        \o <<",", " ", "a", "n", "t", "i", "w", "o", "r", "d", " ", "e", "r", "r", "o", "r", ":", " ">> \o antiword_err

\* f"Failed to extract text from Excel file. openpyxl error: {e}, xlrd error: {e2}"
XlsxCompositeMsg(e, e2) ==
    <<"F", "a", "i", "l", "e", "d", " ", "t", "o", " ", "e", "x", "t", "r", "a", "c", "t", " ", "t", "e", "x", "t", " ", "f", "r", "o", "m", " ", "E", "x", "c", "e", "l", " ", "f", "i", "l", "e", ".", " ", "o", "p", "e", "n", "p", "y", "x", "l", " ", "e", "r", "r", "o", "r", ":", " ">> \o e
        \o <<",", " ", "x", "l", "r", "d", " ", "e", "r", "r", "o", "r", ":", " ">> \o e2

\* str() of the UnboundLocalError raised when a deleted local is read
\* (CPython 3.11 and later; before 3.11).
UnboundLocalMsgs ==
    {<<"c", "a", "n", "n", "o", "t", " ", "a", "c", "c", "e", "s", "s", " ", "l", "o", "c", "a", "l", " ", "v", "a", "r", "i", "a", "b", "l", "e", " ", "'", "e", "'", " ", "w", "h", "e", "r", "e", " ", "i", "t", " ", "i", "s", " ", "n", "o", "t", " ", "a", "s", "s", "o", "c", "i", "a", "t", "e", "d", " ", "w", "i", "t", "h", " ", "a", " ", "v", "a", "l", "u", "e">>,
     <<"l", "o", "c", "a", "l", " ", "v", "a", "r", "i", "a", "b", "l", "e", " ", "'", "e", "'", " ", "r", "e", "f", "e", "r", "e", "n", "c", "e", "d", " ", "b", "e", "f", "o", "r", "e", " ", "a", "s", "s", "i", "g", "n", "m", "e", "n", "t">>}

\* ------------------------------------------------------------------------
\* JSON manifests: the text of a manifest, json.loads, the parsed value
\* ------------------------------------------------------------------------

\* A parsed JSON value.  An object keeps its keys in the order of the text,
\* as a Python dict does; keys[i] maps to items[i].
JNull == [s |-> EmptyStr, t |-> "null", keys |-> << >>, items |-> << >>]

JBool(b) == [JNull EXCEPT !.t = IF b THEN "true" ELSE "false"]

JStr(s) == [JNull EXCEPT !.t = "str", !.s = s]

\* An int, kept as str() gives it.
JNum(digits) == [JNull EXCEPT !.t = "num", !.s = digits]

JArr(items) == [JNull EXCEPT !.t = "arr", !.items = items]

JObj(keys, items) == [JNull EXCEPT !.t = "obj", !.keys = keys, !.items = items]

\* json.loads raised: the text is not JSON.
Invalid == [JNull EXCEPT !.t = "invalid"]

Digits == {"0", "1", "2", "3", "4", "5", "6", "7", "8", "9"}

\* The class [0-9a-f] of the pattern.
HexChars == Digits \cup {"a", "b", "c", "d", "e", "f"}

\* The literal text the pattern starts with: ObjectId("
ObjectIdOpen == <<"O", "b", "j", "e", "c", "t", "I", "d", "(", "\"">>

\* The length of the longest run of characters of class at s[i..].
RunLen(s, i, class) ==
    SetMax({k \in 0..(Len(s) + 1 - i) : \A j \in i..(i + k - 1) : s[j] \in class})

\* The pattern ObjectId\("([0-9a-f]+)"\) matched at position i of s: the
\* length of group 1, or 0 when the pattern does not match there.
MatchObjectId(s, i) ==
    LET n     == Len(ObjectIdOpen)
        start == i + n
        run   == IF start <= Len(s) THEN RunLen(s, start, HexChars) ELSE 0
    IN  IF /\ start - 1 <= Len(s)
           /\ SubSeq(s, i, start - 1) = ObjectIdOpen
           /\ run >= 1
           /\ start + run + 1 <= Len(s)
           /\ s[start + run] = "\""
           /\ s[start + run + 1] = ")"
        THEN run
        ELSE 0

RECURSIVE ObjectIdSubFrom(_, _)
\* re.sub(r'ObjectId\("([0-9a-f]+)"\)', r'"\1"', s), from position i on:
\* the text up to the next match is kept, the match becomes its group 1 in
\* quotes, and the search goes on behind the match.
ObjectIdSubFrom(s, i) ==
    LET matches == {j \in i..Len(s) : MatchObjectId(s, j) > 0}
    IN  IF matches = {}
        THEN SubSeq(s, i, Len(s))
        ELSE LET j     == SetMin(matches)
                 run   == MatchObjectId(s, j)
                 start == j + Len(ObjectIdOpen)
             IN  SubSeq(s, i, j - 1)
                     \o <<"\"">> \o SubSeq(s, start, start + run - 1) \o <<"\"">>
                     \o ObjectIdSubFrom(s, start + run + 2)

\* A mutant of ObjectIdSub: the text is parsed as it was read.
ObjectIdSubOmitted(s) == s

\* cleaned = re.sub(r'ObjectId\("([0-9a-f]+)"\)', r'"\1"', content)
ObjectIdSub(s) == ObjectIdSubFrom(s, 1)

\* The outcome of parsing one value: the value and the position after it.
ParseFail == [ok |-> FALSE, val |-> JNull, next |-> 0]

Parsed(v, next) == [ok |-> TRUE, val |-> v, next |-> next]

\* The whitespace json skips between tokens: space, \t, \n and \r only.
JsonWhitespace == {" ", "\t", "\n", "\r"}

\* The first position at or after i that holds no JSON whitespace.
SkipWs(s, i) ==
    SetMin({j \in i..(Len(s) + 1) : j = Len(s) + 1 \/ s[j] \notin JsonWhitespace})

\* The characters a JSON string must not hold unescaped: \x00 to \x1f.
ControlChars == {Chr(n) : n \in 0..31}

\* What follows the backslash of a two-character escape, and the character
\* the escape stands for.
Backslash ==
    ("\"" :> "\"") @@ ("\\" :> "\\") @@ ("/" :> "/") @@ ("b" :> Chr(8)) @@
    ("f" :> Chr(12)) @@ ("n" :> "\n") @@ ("r" :> "\r") @@ ("t" :> "\t")

\* The digits of base 16, in order; both cases are read.
HexDigits == <<"0", "1", "2", "3", "4", "5", "6", "7", "8", "9", "a", "b", "c", "d", "e", "f">>

HexCapitals == <<"0", "1", "2", "3", "4", "5", "6", "7", "8", "9", "A", "B", "C", "D", "E", "F">>

IsHex(c) == \E k \in 1..Len(HexDigits) : c \in {HexDigits[k], HexCapitals[k]}

HexVal(c) == (CHOOSE k \in 1..Len(HexDigits) : c \in {HexDigits[k], HexCapitals[k]}) - 1

RECURSIVE HexNum(_)
\* int(digits, 16)
HexNum(digits) ==
    IF digits = << >> THEN 0
    ELSE 16 * HexNum(SubSeq(digits, 1, Len(digits) - 1)) + HexVal(digits[Len(digits)])

\* s[i..i+3] are four hexadecimal digits.
FourHex(s, i) == i + 3 <= Len(s) /\ \A k \in i..(i + 3) : IsHex(s[k])

\* The first position from i on that holds a quote, a backslash or a control
\* character, or 0 when there is none.
NextSpecial(s, i) ==
    LET special == {j \in i..Len(s) : s[j] \in {"\"", "\\"} \cup ControlChars}
    IN  IF special = {} THEN 0 ELSE SetMin(special)

\* The code point of the \uXXXX escape at s[k], or 0 when none is there.
EscapeAt(s, k) ==
    IF k + 1 <= Len(s) /\ s[k] = "\\" /\ s[k + 1] = "u" /\ FourHex(s, k + 2)
    THEN HexNum(SubSeq(s, k + 2, k + 5))
    ELSE 0

RECURSIVE ScanString(_, _, _), ScanSpecial(_, _, _, _), ScanEscape(_, _, _, _, _)
\* The rest of a string from position i on, behind the characters of acc:
\* plain characters up to the closing quote, two-character escapes, and
\* \uXXXX escapes, of which a high surrogate followed by the escape of a low
\* surrogate gives one character. A control character, an unknown escape
\* and the end of the text make json raise.
ScanString(s, i, acc) == ScanSpecial(s, i, NextSpecial(s, i), acc)

\* The string from i on, whose first quote, backslash or control character
\* is at j.
ScanSpecial(s, i, j, acc) ==
    IF j = 0 THEN ParseFail
    ELSE IF s[j] = "\"" THEN Parsed(JStr(acc \o SubSeq(s, i, j - 1)), j + 1)
    ELSE IF s[j] # "\\" \/ j + 1 > Len(s) THEN ParseFail
    ELSE IF s[j + 1] \in DOMAIN Backslash
    THEN ScanString(s, j + 2, Append(acc \o SubSeq(s, i, j - 1), Backslash[s[j + 1]]))
    ELSE IF s[j + 1] # "u" \/ ~FourHex(s, j + 2) THEN ParseFail
    ELSE ScanEscape(s, j, acc \o SubSeq(s, i, j - 1), EscapeAt(s, j), EscapeAt(s, j + 6))

\* The string behind the \uXXXX escape at j, which gives the code point
\* high and is followed by the escape of low, or by none when low is 0.
ScanEscape(s, j, plain, high, low) ==
    IF high \in 55296..56319 /\ low \in 56320..57343
    THEN ScanString(s, j + 12,
             Append(plain, CharOf(65536 + (high - 55296) * 1024 + (low - 56320))))
    ELSE ScanString(s, j + 6, Append(plain, CharOf(high)))

\* A string starting at the quote s[i].
ParseString(s, i) == ScanString(s, i + 1, << >>)

RECURSIVE StrToInt(_)
\* int(digits) for decimal digits
StrToInt(digits) ==
    IF digits = << >> THEN 0
    ELSE 10 * StrToInt(SubSeq(digits, 1, Len(digits) - 1))
            + (CHOOSE d \in 0..9 : IntToStr(d) = <<digits[Len(digits)]>>)

\* digits without the zeros it starts with / ends with.
StripLeadingZeros(digits) ==
    LET keep == {k \in 1..Len(digits) : digits[k] # "0"}
    IN  IF keep = {} THEN << >> ELSE SubSeq(digits, SetMin(keep), Len(digits))

StripTrailingZeros(digits) ==
    LET keep == {k \in 1..Len(digits) : digits[k] # "0"}
    IN  IF keep = {} THEN << >> ELSE SubSeq(digits, 1, SetMax(keep))

Zeros(n) == [k \in 1..n |-> "0"]

\* The float whose digits are 0.digits times 10 to the decpt, digits
\* starting and ending with no zero.
FloatOf(sign, digits, decpt) ==
    LET n   == Len(digits)
        e   == decpt - 1
        abs == IF decpt < 1 THEN 1 - decpt ELSE decpt - 1
    IN  IF n = 0 \/ e < -324 THEN sign \o <<"0", ".", "0">>
        ELSE IF e > 308 THEN sign \o <<"i", "n", "f">>
        ELSE IF e < -4 \/ e >= 16
        THEN sign \o <<digits[1]>>
                  \o (IF n > 1 THEN <<".">> \o SubSeq(digits, 2, n) ELSE EmptyStr)
                  \o <<"e">> \o (IF e < 0 THEN <<"-">> ELSE <<"+">>)
                  \o (IF abs < 10 THEN <<"0">> ELSE EmptyStr) \o IntToStr(abs)
        ELSE IF decpt <= 0 THEN sign \o <<"0", ".">> \o Zeros(-decpt) \o digits
        ELSE IF decpt >= n THEN sign \o digits \o Zeros(decpt - n) \o <<".", "0">>
        ELSE sign \o SubSeq(digits, 1, decpt) \o <<".">> \o SubSeq(digits, decpt + 1, n)

\* ---- Decimal numbers and doubles -----------------------------------------
\* A positive decimal number is a pair <<n, f>> of sequences of limbs, each
\* limb eight decimal digits: n the limbs of its integer part, the first one
\* not zero, and f those of its fraction, the last one not zero.

DecDigits == <<"0", "1", "2", "3", "4", "5", "6", "7", "8", "9">>

LimbDigits == 8

LimbBase == 100000000

PowersOfTen == <<1, 10, 100, 1000, 10000, 100000, 1000000, 10000000, 100000000>>

PowersOfTwo == <<1, 2, 4, 8, 16, 32, 64, 128, 256>>

\* The digits a text of digits writes, as numbers, and back.
DigitsOf(chars) == [i \in 1..Len(chars) |-> (CHOOSE k \in 1..10 : DecDigits[k] = chars[i]) - 1]

CharsOf(ds) == [i \in 1..Len(ds) |-> DecDigits[ds[i] + 1]]

\* The limbs of a sequence of digits whose length is a multiple of eight,
\* and the digits of a sequence of limbs.
LimbsOf(ds) ==
    [i \in 1..(Len(ds) \div LimbDigits) |->
        ds[8 * i - 7] * 10000000 + ds[8 * i - 6] * 1000000 + ds[8 * i - 5] * 100000
            + ds[8 * i - 4] * 10000 + ds[8 * i - 3] * 1000 + ds[8 * i - 2] * 100
            + ds[8 * i - 1] * 10 + ds[8 * i]]

DigitsIn(limbs) ==
    [i \in 1..(LimbDigits * Len(limbs)) |->
        (limbs[(i + 7) \div LimbDigits] \div PowersOfTen[8 - ((i + 7) % LimbDigits)]) % 10]

\* The decimal with the integer digits n and the fraction digits f.
Decimal(n, f) ==
    <<LimbsOf([i \in 1..((LimbDigits - (Len(n) % LimbDigits)) % LimbDigits) |-> 0] \o n),
      LimbsOf(f \o [i \in 1..((LimbDigits - (Len(f) % LimbDigits)) % LimbDigits) |-> 0])>>

\* The i-th limb of the decimal x, counted from its first integer limb.
LimbAt(x, i) == IF i <= Len(x[1]) THEN x[1][i] ELSE x[2][i - Len(x[1])]

LimbCount(x) == Len(x[1]) + Len(x[2])

\* x / 2^s for s from 1 to 8: a limb is divided by 2^s, and what the limb
\* before it leaves as remainder is carried into it, as the limb base is a
\* multiple of 2^s. A first limb below 2^s goes, and a limb is added for the
\* remainder of the last one.
HalveBy(x, s) ==
    LET p   == PowersOfTwo[s + 1]
        n   == LimbCount(x)
        z   == IF Len(x[1]) > 0 /\ x[1][1] < p THEN 1 ELSE 0
        e   == IF n > 0 /\ LimbAt(x, n) % p # 0 THEN 1 ELSE 0
        all == [i \in 1..(n + e) |->
                   (IF i <= n THEN LimbAt(x, i) \div p ELSE 0)
                       + (IF i > 1 THEN (LimbBase \div p) * (LimbAt(x, i - 1) % p) ELSE 0)]
    IN  <<SubSeq(all, 1 + z, Len(x[1])), SubSeq(all, Len(x[1]) + 1, n + e)>>

\* x * 2^s for s from 1 to 8: the part of a limb below the limb base / 2^s
\* is multiplied, and the part of the limb behind it above that is carried
\* into it. The carry of the first limb is a new first limb, and a last limb
\* of the fraction that becomes zero goes.
TwiceBy(x, s) ==
    LET p   == PowersOfTwo[s + 1]
        q   == LimbBase \div p
        n   == LimbCount(x)
        t   == IF Len(x[2]) > 0 /\ x[2][Len(x[2])] % q = 0 THEN 1 ELSE 0
        all == [i \in 1..n |->
                   p * (LimbAt(x, i) % q) + (IF i < n THEN LimbAt(x, i + 1) \div q ELSE 0)]
    IN  <<(IF n > 0 /\ LimbAt(x, 1) \div q > 0 THEN <<LimbAt(x, 1) \div q>> ELSE << >>)
              \o SubSeq(all, 1, Len(x[1])),
          SubSeq(all, Len(x[1]) + 1, n - t)>>

RECURSIVE ScaleBy(_, _)
\* x * 2^k: in one step for k from -8 to 8, and else x times 2 to the half
\* of k, times 2 to the rest of k.
ScaleBy(x, k) ==
    IF k = 0 THEN x
    ELSE IF k \in 1..LimbDigits THEN TwiceBy(x, k)
    ELSE IF -k \in 1..LimbDigits THEN HalveBy(x, -k)
    ELSE CHOOSE z \in {ScaleBy(y, k - (k \div 2)) : y \in {ScaleBy(x, k \div 2)}} : TRUE

\* a < b for two integers given by their limbs.
IntLess(a, b) ==
    \/ Len(a) < Len(b)
    \/ /\ Len(a) = Len(b)
       /\ \E i \in 1..Len(a) : a[i] < b[i] /\ \A j \in 1..(i - 1) : a[j] = b[j]

\* n + 1 and n - 1 for an integer n >= 1 given by its digits, or by its
\* limbs, of which top is the largest.
Succ(n, top) ==
    LET j == SetMax({0} \cup {i \in 1..Len(n) : n[i] # top})
    IN  IF j = 0 THEN <<1>> \o [i \in 1..Len(n) |-> 0]
        ELSE [i \in 1..Len(n) |-> IF i < j THEN n[i] ELSE IF i = j THEN n[i] + 1 ELSE 0]

Pred(n, top) ==
    LET j == SetMax({i \in 1..Len(n) : n[i] # 0})
        d == [i \in 1..Len(n) |-> IF i < j THEN n[i] ELSE IF i = j THEN n[i] - 1 ELSE top]
    IN  IF d[1] = 0 THEN Tail(d) ELSE d

\* A double has 53 bits: its significand lies between 2^52 and 2^53, unless
\* its exponent is the smallest one, -1074; the largest exponent is 971.
TwoTo52 == <<45035996, 27370496>>

TwoTo53 == <<90071992, 54740992>>

MinBinaryExp == -1074

MaxBinaryExp == 971

\* The number of decimal digits of the integer part of x, and the number
\* of zeros its fraction starts with.
IntDigits(x) ==
    IF Len(x[1]) = 0 THEN 0
    ELSE LimbDigits * (Len(x[1]) - 1)
             + (CHOOSE d \in 1..LimbDigits : x[1][1] < PowersOfTen[d + 1] /\ x[1][1] >= PowersOfTen[d])

FracZeros(x) ==
    LET i == CHOOSE i \in 1..Len(x[2]) : x[2][i] # 0 /\ \A j \in 1..(i - 1) : x[2][j] = 0
    IN  LimbDigits * i
            - (CHOOSE d \in 1..LimbDigits : x[2][i] < PowersOfTen[d + 1] /\ x[2][i] >= PowersOfTen[d])

\* A power of two by which x can be multiplied (or, when negative, divided)
\* without passing 2^52 from above or 2^53 from below: an integer part of n
\* digits is at least 10^(n-1) and less than 10^n, a fraction that starts
\* with z zeros is less than 10^-z, and ten digits are worth more than 33
\* powers of two, one digit more than three.
Stride(x) ==
    IF IntDigits(x) >= 18 THEN -((33 * (IntDigits(x) - 17)) \div 10)
    ELSE IF IntDigits(x) = 0 THEN 49 + (33 * FracZeros(x)) \div 10
    ELSE IF IntDigits(x) <= 15 THEN 3 * (16 - IntDigits(x))
    ELSE 0

RECURSIVE ToBinary(_, _)
\* <<y, k>> with x = y * 2^k and the integer part of y between 2^52 and
\* 2^53, or k the smallest exponent.
ToBinary(x, k) ==
    IF Stride(x) < 0 THEN ToBinary(ScaleBy(x, Stride(x)), k - Stride(x))
    ELSE IF Stride(x) > 0 /\ k - Stride(x) >= MinBinaryExp
    THEN ToBinary(ScaleBy(x, Stride(x)), k - Stride(x))
    ELSE IF Stride(x) > 0 /\ k > MinBinaryExp
    THEN ToBinary(ScaleBy(x, k - MinBinaryExp), MinBinaryExp)
    ELSE IF ~IntLess(x[1], TwoTo53) THEN ToBinary(HalveBy(x, 1), k + 1)
    ELSE IF IntLess(x[1], TwoTo52) /\ k > MinBinaryExp THEN ToBinary(TwiceBy(x, 1), k - 1)
    ELSE <<x, k>>

\* y rounded to an integer, halves to the even neighbour.
RoundHalfEven(y) ==
    IF /\ Len(y[2]) > 0
       /\ \/ 2 * y[2][1] > LimbBase
          \/ /\ 2 * y[2][1] = LimbBase
             /\ (Len(y[2]) > 1 \/ (Len(y[1]) > 0 /\ y[1][Len(y[1])] % 2 = 1))
    THEN Succ(y[1], LimbBase - 1)
    ELSE y[1]

\* The double <<m, k>>, m * 2^k, nearest to y * 2^k.
Rounded(y, k) ==
    IF RoundHalfEven(y) = TwoTo53 THEN <<TwoTo52, k + 1>> ELSE <<RoundHalfEven(y), k>>

\* A decimal as 0.d times 10 to the p: <<d, p>>, d without leading and
\* trailing zeros.
Normal(x) ==
    LET all   == DigitsIn(x[1] \o x[2])
        first == CHOOSE i \in 1..Len(all) : all[i] # 0 /\ \A j \in 1..(i - 1) : all[j] = 0
        last  == CHOOSE i \in 1..Len(all) : all[i] # 0 /\ \A j \in (i + 1)..Len(all) : all[j] = 0
    IN  <<SubSeq(all, first, last), LimbDigits * Len(x[1]) - (first - 1)>>

\* a < b for two decimals <<d, p>>.
DecLess(a, b) ==
    \/ a[2] < b[2]
    \/ /\ a[2] = b[2]
       /\ \E i \in 1..Len(b[1]) :
             /\ (IF i <= Len(a[1]) THEN a[1][i] ELSE 0) < b[1][i]
             /\ \A j \in 1..(i - 1) : (IF j <= Len(a[1]) THEN a[1][j] ELSE 0) = b[1][j]

\* The decimals of n digits next to x = <<d, p>>: below or at x, and above or
\* at it.
DecFloor(x, n) ==
    IF Len(x[1]) <= n THEN x
    ELSE <<SubSeq(x[1], 1, SetMax({i \in 1..n : x[1][i] # 0})), x[2]>>

DecCeil(x, n) ==
    IF Len(x[1]) <= n THEN x
    ELSE IF \A i \in 1..n : x[1][i] = 9 THEN <<<<1>>, x[2] + 1>>
    ELSE LET up == Succ(SubSeq(x[1], 1, n), 9)
         IN  <<SubSeq(up, 1, SetMax({i \in 1..n : up[i] # 0})), x[2]>>

\* c lies in the interval from lo to hi, its ends included when closed.
Within(c, lo, hi, closed) ==
    IF closed THEN ~DecLess(c, lo) /\ ~DecLess(hi, c)
    ELSE DecLess(lo, c) /\ DecLess(c, hi)

\* x lies nearer to DecCeil(x, n) than to DecFloor(x, n), or as near with
\* an odd n-th digit.
NearerCeil(x, n) ==
    /\ Len(x[1]) > n
    /\ \/ x[1][n + 1] > 5
       \/ x[1][n + 1] = 5 /\ (Len(x[1]) > n + 1 \/ x[1][n] % 2 = 1)

\* The decimal of n digits that reads as the double x, the nearer one of
\* the two next to x when both do, or << >> when none does.
Candidate(x, lo, hi, closed, n) ==
    IF Within(DecFloor(x, n), lo, hi, closed)
    THEN IF Within(DecCeil(x, n), lo, hi, closed) /\ NearerCeil(x, n)
         THEN DecCeil(x, n) ELSE DecFloor(x, n)
    ELSE IF Within(DecCeil(x, n), lo, hi, closed) THEN DecCeil(x, n)
    ELSE << >>

\* 17 digits tell any two doubles apart.
MaxReprDigits == 17

\* The shortest decimal between lo and hi, the nearest to x among the
\* decimals of that length.
ShortestIn(x, lo, hi, closed) ==
    Candidate(x, lo, hi, closed,
              CHOOSE n \in 1..MaxReprDigits :
                 /\ Candidate(x, lo, hi, closed, n) # << >>
                 /\ \A j \in 1..(n - 1) : Candidate(x, lo, hi, closed, j) = << >>)

\* The shortest decimal that reads as the double m * 2^k: it lies between
\* the middle to the double below and the middle to the double above, which
\* read as m * 2^k when m is even. The double below is half as far away
\* when m is 2^52 and k is not the smallest exponent.
ShortestOf(m, k) ==
    ShortestIn(Normal(ScaleBy(<<m, << >>>>, k)),
               IF m = TwoTo52 /\ k > MinBinaryExp
               THEN Normal(ScaleBy(<<Pred(TwiceBy(<<m, << >>>>, 2)[1], LimbBase - 1), << >>>>,
                                   k - 2))
               ELSE Normal(ScaleBy(<<Pred(TwiceBy(<<m, << >>>>, 1)[1], LimbBase - 1), << >>>>,
                                   k - 1)),
               Normal(ScaleBy(<<Succ(TwiceBy(<<m, << >>>>, 1)[1], LimbBase - 1), << >>>>,
                              k - 1)),
               m[Len(m)] % 2 = 0)

\* repr() of the double b = <<m, k>>.
DoubleRepr(sign, b) ==
    IF b[1] = << >> THEN sign \o <<"0", ".", "0">>
    ELSE IF b[2] > MaxBinaryExp THEN sign \o <<"i", "n", "f">>
    ELSE FloatOf(sign, CharsOf(ShortestOf(b[1], b[2])[1]), ShortestOf(b[1], b[2])[2])

\* The double nearest to the decimal x.
DoubleOf(x) == Rounded(ToBinary(x, 0)[1], ToBinary(x, 0)[2])

\* The largest and the smallest position of the decimal point, counted from
\* the first digit that is not zero, of a number that is not read as
\* infinity or as zero at once.
MaxDecimalPoint == 309

MinDecimalPoint == -323

\* repr(float(text)) for the number 0.digits times 10 to the decpt, digits
\* starting and ending with no zero: the double nearest to the number, written
\* with the fewest digits that give it back.
FloatNear(sign, digits, decpt) ==
    IF digits = << >> \/ decpt < MinDecimalPoint THEN sign \o <<"0", ".", "0">>
    ELSE IF decpt > MaxDecimalPoint THEN sign \o <<"i", "n", "f">>
    ELSE DoubleRepr(sign,
            DoubleOf(IF decpt >= Len(digits)
                     THEN Decimal(DigitsOf(digits) \o [i \in 1..(decpt - Len(digits)) |-> 0],
                                  << >>)
                     ELSE IF decpt > 0
                     THEN Decimal(DigitsOf(SubSeq(digits, 1, decpt)),
                                  DigitsOf(SubSeq(digits, decpt + 1, Len(digits))))
                     ELSE Decimal(<< >>, [i \in 1..(-decpt) |-> 0] \o DigitsOf(digits))))

\* The exponents json reads are not bounded; one of more than nine digits
\* is as good as the largest of nine.
MaxExpDigits == 9

\* int(digits) for the digits of an exponent.
ExpOf(digits) ==
    IF Len(StripLeadingZeros(digits)) > MaxExpDigits THEN 999999999
    ELSE StrToInt(StripLeadingZeros(digits))

\* repr(float(text)) for the number minus? int . frac e exp, where exp is
\* an integer.
FloatRepr(minus, int, frac, exp) ==
    FloatNear(IF minus THEN <<"-">> ELSE EmptyStr,
              StripTrailingZeros(StripLeadingZeros(int \o frac)),
              exp - Len(frac) + Len(StripLeadingZeros(int \o frac)))

\* A float, kept as its repr.
JFloat(repr) == [JNull EXCEPT !.t = "float", !.s = repr]

\* The end of the integer part that starts at s[a]: a zero, or a run of
\* digits that starts with another digit; a when no digit is there.
IntEnd(s, a) ==
    IF a > Len(s) \/ s[a] \notin Digits THEN a
    ELSE IF s[a] = "0" THEN a + 1
    ELSE a + RunLen(s, a, Digits)

\* The end of the fraction at s[b]: a point and the digits behind it; b when
\* no digit follows a point.
FracEnd(s, b) ==
    IF b + 1 <= Len(s) /\ s[b] = "." /\ s[b + 1] \in Digits
    THEN b + 1 + RunLen(s, b + 1, Digits)
    ELSE b

\* Where the digits of an exponent at s[c] would start: behind the e and
\* its sign.
ExpDigits(s, c) ==
    IF c + 1 <= Len(s) /\ s[c] \in {"e", "E"} /\ s[c + 1] \in {"+", "-"}
    THEN c + 2
    ELSE c + 1

\* The end of the exponent at s[c]; c when no digit follows the e and its
\* sign.
ExpEnd(s, c) ==
    IF c <= Len(s) /\ s[c] \in {"e", "E"}
          /\ ExpDigits(s, c) <= Len(s) /\ s[ExpDigits(s, c)] \in Digits
    THEN ExpDigits(s, c) + RunLen(s, ExpDigits(s, c), Digits)
    ELSE c

\* int(text) raises ValueError for a text of more digits than
\* sys.int_max_str_digits, which is 4300 unless it is set.
MaxStrDigits == 4300

\* The number whose integer part is s[a..b-1], whose fraction ends before c
\* and whose exponent ends before next; json.loads raises for an int of too
\* many digits.
NumberOf(s, minus, a, b, c, next) ==
    IF b = a THEN ParseFail
    ELSE IF next = b /\ b - a > MaxStrDigits THEN ParseFail
    ELSE IF next = b
    THEN Parsed(JNum((IF minus /\ SubSeq(s, a, b - 1) # <<"0">> THEN <<"-">> ELSE EmptyStr)
                         \o SubSeq(s, a, b - 1)), next)
    ELSE Parsed(JFloat(FloatRepr(minus, SubSeq(s, a, b - 1),
                                 IF c > b THEN SubSeq(s, b + 1, c - 1) ELSE EmptyStr,
                                 IF next = c THEN 0
                                 ELSE IF s[ExpDigits(s, c) - 1] = "-"
                                 THEN -ExpOf(SubSeq(s, ExpDigits(s, c), next - 1))
                                 ELSE ExpOf(SubSeq(s, ExpDigits(s, c), next - 1)))),
                next)

\* The number whose integer part is s[a..b-1].
NumberFrom(s, minus, a, b) == NumberOf(s, minus, a, b, FracEnd(s, b), ExpEnd(s, FracEnd(s, b)))

\* A number starting at s[i], which is a digit or the minus sign: the
\* integer part, a fraction if a digit follows the point, an exponent if a
\* digit follows the e and its sign. Without fraction and exponent the
\* number is an int, with one of them a float.
ParseNumber(s, i) ==
    IF s[i] = "-"
    THEN NumberFrom(s, TRUE, i + 1, IntEnd(s, i + 1))
    ELSE NumberFrom(s, FALSE, i, IntEnd(s, i))

\* null, true, false, NaN, Infinity or -Infinity at s[i].
ParseLiteral(s, i) ==
    LET At(word) == i + Len(word) - 1 <= Len(s) /\ SubSeq(s, i, i + Len(word) - 1) = word
    IN  IF At(<<"n", "u", "l", "l">>) THEN Parsed(JNull, i + 4)
        ELSE IF At(<<"t", "r", "u", "e">>) THEN Parsed(JBool(TRUE), i + 4)
        ELSE IF At(<<"f", "a", "l", "s", "e">>) THEN Parsed(JBool(FALSE), i + 5)
        ELSE IF At(<<"N", "a", "N">>) THEN Parsed(JFloat(<<"n", "a", "n">>), i + 3)
        ELSE IF At(<<"I", "n", "f", "i", "n", "i", "t", "y">>) THEN Parsed(JFloat(<<"i", "n", "f">>), i + 8)
        ELSE IF At(<<"-", "I", "n", "f", "i", "n", "i", "t", "y">>) THEN Parsed(JFloat(<<"-", "i", "n", "f">>), i + 9)
        ELSE ParseFail

\* dict[key] = value: a repeated key keeps its place and takes the new value.
DictSet(keys, items, key, value) ==
    IF \E i \in 1..Len(keys) : keys[i] = key
    THEN <<keys, [i \in 1..Len(items) |-> IF keys[i] = key THEN value ELSE items[i]]>>
    ELSE <<Append(keys, key), Append(items, value)>>

\* The number r read at position i, or the literal there when no number is.
NumberOr(s, i, r) == IF r.ok THEN r ELSE ParseLiteral(s, i)

\* sys.getrecursionlimit(): the interpreter's default, which nothing in the
\* repository changes.
RecursionLimit == 1000

\* The levels json.loads has in use of it when the scanner meets the first
\* bracket of a text (CPython 3.11: called from the only frame on the stack
\* it reads 995 arrays in one another, and of 996 it raises RecursionError).
DecoderFrames == 4

\* The arrays and objects in one another that json.loads can read when
\* frames Python frames are on the stack at its call: every frame takes one.
ScanDepth(frames) == RecursionLimit - DecoderFrames - frames

\* The callers a call of an entry point has beneath it on the stack: none
\* when it is the first frame of a thread, else the module that calls it, the
\* hook, and the action with the function get_actions wraps it in.
MaxCallers == 3

\* The frames on the stack at a call of json.loads, own of them those of the
\* entry point and of what it calls down to json.loads.
StackFrames(own) == {own + callers : callers \in 0..MaxCallers}

\* The places of s outside its strings: those with an even number of quotes
\* before them, a quote behind an odd run of backslashes not counted.
Escaped(s, j) ==
    \E k \in 1..(j - 1) :
        /\ \A m \in k..(j - 1) : s[m] = "\\"
        /\ (k = 1 \/ s[k - 1] # "\\")
        /\ (j - k) % 2 = 1

Unquoted(s, among) ==
    LET quotes == {j \in 1..Len(s) : s[j] = "\"" /\ ~Escaped(s, j)}
    IN  {j \in among : Cardinality({q \in quotes : q < j}) % 2 = 0}

\* The text opens more than depth arrays and objects in one another: some
\* opening bracket has depth or more brackets open before it.
TooDeep(s, depth) ==
    /\ Len(s) > depth
    /\ LET opens  == Unquoted(s, {j \in 1..Len(s) : s[j] \in {"[", "{"}})
           closes == Unquoted(s, {j \in 1..Len(s) : s[j] \in {"]", "}"}})
       IN  \E p \in opens :
              Cardinality({j \in opens : j < p}) - Cardinality({j \in closes : j < p}) >= depth

RECURSIVE ParseValue(_, _, _), ValueAt(_, _, _), ArrayAt(_, _, _, _), ObjectAt(_, _, _, _),
          ParseElements(_, _, _, _), ElementEnd(_, _, _, _), ParseMembers(_, _, _, _, _),
          MemberValue(_, _, _, _, _), MemberEnd(_, _, _, _, _, _)
\* The JSON value that starts at or after position i0, left the arrays and
\* objects in one another that the scanner can still enter.
ParseValue(s, i0, left) == ValueAt(s, SkipWs(s, i0), left)

\* The JSON value that starts at position i: a string, a number, an array,
\* an object or a literal. The scanner enters an array or an object through
\* Py_EnterRecursiveCall, which raises RecursionError when no level is left.
ValueAt(s, i, left) ==
    IF i > Len(s) THEN ParseFail
    ELSE IF s[i] = "\"" THEN ParseString(s, i)
    ELSE IF s[i] \in Digits \cup {"-"} THEN NumberOr(s, i, ParseNumber(s, i))
    ELSE IF s[i] \in {"[", "{"} /\ left = 0 THEN ParseFail
    ELSE IF s[i] = "[" THEN ArrayAt(s, i, SkipWs(s, i + 1), left - 1)
    ELSE IF s[i] = "{" THEN ObjectAt(s, i, SkipWs(s, i + 1), left - 1)
    ELSE ParseLiteral(s, i)

\* The array that starts at s[i], j the place behind the bracket and the
\* whitespace that follows it.
ArrayAt(s, i, j, left) ==
    IF j <= Len(s) /\ s[j] = "]"
    THEN Parsed(JArr(<< >>), j + 1)
    ELSE ParseElements(s, i + 1, << >>, left)

\* The object that starts at s[i], j the place behind the brace and the
\* whitespace that follows it.
ObjectAt(s, i, j, left) ==
    IF j <= Len(s) /\ s[j] = "}"
    THEN Parsed(JObj(<< >>, << >>), j + 1)
    ELSE ParseMembers(s, i + 1, << >>, << >>, left)

\* The elements of an array from position i on, after those of acc.
ParseElements(s, i, acc, left) == ElementEnd(s, ParseValue(s, i, left), acc, left)

\* The element that was read as r: a comma and more elements, or the
\* bracket that ends the array.
ElementEnd(s, r, acc, left) ==
    LET j == SkipWs(s, r.next)
    IN  IF ~r.ok \/ j > Len(s) THEN ParseFail
        ELSE IF s[j] = "," THEN ParseElements(s, j + 1, Append(acc, r.val), left)
        ELSE IF s[j] = "]" THEN Parsed(JArr(Append(acc, r.val)), j + 1)
        ELSE ParseFail

\* The members of an object from position i on, after those of keys/items.
ParseMembers(s, i, keys, items, left) ==
    LET k == SkipWs(s, i)
    IN  IF k <= Len(s) /\ s[k] = "\""
        THEN MemberValue(s, ParseString(s, k), keys, items, left)
        ELSE ParseFail

\* The member whose key was read as ks: a colon and a value.
MemberValue(s, ks, keys, items, left) ==
    LET c == SkipWs(s, ks.next)
    IN  IF ks.ok /\ c <= Len(s) /\ s[c] = ":"
        THEN MemberEnd(s, ks.val.s, ParseValue(s, c + 1, left), keys, items, left)
        ELSE ParseFail

\* The member whose value was read as r: a comma and more members, or the
\* brace that ends the object.
MemberEnd(s, key, r, keys, items, left) ==
    LET j  == SkipWs(s, r.next)
        kv == DictSet(keys, items, key, r.val)
    IN  IF ~r.ok \/ j > Len(s) THEN ParseFail
        ELSE IF s[j] = "," THEN ParseMembers(s, j + 1, kv[1], kv[2], left)
        ELSE IF s[j] = "}" THEN Parsed(JObj(kv[1], kv[2]), j + 1)
        ELSE ParseFail

\* The value read as r, when nothing but whitespace follows it.
WholeText(s, r) == IF r.ok /\ SkipWs(s, r.next) > Len(s) THEN r.val ELSE Invalid

\* json.loads(s) with frames Python frames on the stack at the call: the
\* value, or Invalid when json.loads raises, JSONDecodeError for a text that
\* is not JSON and RecursionError for one that nests deeper than the stack
\* allows. The descent fails at the first bracket beyond ScanDepth(frames),
\* so a text that has such a bracket is Invalid whatever else it holds.
loads(s, frames) ==
    IF TooDeep(s, ScanDepth(frames))
    THEN Invalid
    ELSE WholeText(s, ParseValue(s, 1, ScanDepth(frames)))

\* Arrays in one another and nothing in them, n deep.
Nested(n) == [i \in 1..n |-> "["] \o [i \in 1..n |-> "]"]

\* The value of the JSON text s by the grammar, which bounds no depth, or
\* Invalid: a text of n characters has fewer than n arrays and objects in
\* one another.
JsonValue(s) == WholeText(s, ParseValue(s, 1, Len(s)))

\* The text is JSON by the grammar: arrays in one another are at every
\* depth.
IsJson(s) == (Len(s) > 0 /\ s = Nested(Len(s) \div 2)) \/ JsonValue(s) # Invalid

\* ------------------------------------------------------------------------
\* State
\* ------------------------------------------------------------------------

VARIABLES
    pc,        \* where the running call is: "idle" when no call is running
    entry,     \* the function the caller called
    impl,      \* which copy of the code runs: "module" or "plugin"
    resource,  \* the resource dict handed to process_resource
    file,      \* the file at the resource's storage path
    fmt,       \* process_resource's local fmt, once resolved
    text,      \* the text extracted so far in this call
    bound,     \* the exception variables bound in the running extractor
    result,    \* how the call ended for its caller
    calls,     \* the collaborators called in this call, in order
    caught,    \* str() of the exceptions this call's handlers caught and
               \* logged, in order
    dataset,   \* the dataset record held by CKAN (the Result Sink)
    uploads,   \* the uploads made to CKAN in this call, in their order
    tmpfiles,  \* the files the pipeline has written under /tmp and not removed
    json_obj,  \* the parsed manifest handed to upload_from_json
    pending,   \* the manifest's urls upload_from_json has still to visit
    fetched,   \* the calls of upload_pdf_from_url made in this call, in order
    response,  \* what requests.post gave the running upload_to_ckan call
    prev,      \* what the call before this one was given and what it gave,
               \* where two calls are compared
    jobs,      \* the invocations of process_resource that run side by side,
               \* each from the point where it has extracted its text
    tmpdata,   \* what the files the invocations wrote under /tmp hold
    snapshot,  \* the dataset package_show gave the running store_text_in_json
    chain      \* the calls that wait in requests.post while CKAN calls
               \* after_resource_create for what they posted, the event the
               \* running call handles, and the resources created so far

vars ==
    <<pc, entry, impl, resource, file, fmt, text, bound, result, calls, caught,
      dataset, uploads, tmpfiles, json_obj, pending, fetched, response, prev,
      jobs, tmpdata, snapshot, chain>>

\* The state the calls of process_resource, of the extractors and of
\* upload_pdf_from_url never touch.
beside == <<response, prev, jobs, tmpdata, snapshot, chain>>

NoResult == [kind |-> "none", value |-> None, type |-> "", msg |-> EmptyStr]

\* The call returned v to its caller.
Returned(v) == [kind |-> "returned", value |-> v, type |-> "", msg |-> EmptyStr]

\* The call raised an exception of class ty whose str() is m.
Raised(ty, m) == [kind |-> "raised", value |-> None, type |-> ty, msg |-> m]

\* No exception variable is bound.
NoBound == [v \in {} |-> EmptyStr]

Resource(format, url, name) ==
    [format |-> format, url |-> url, name |-> name, id |-> <<"r", "1">>, package_id |-> "d1"]

NoResource == Resource(None, EmptyStr, EmptyStr)

\* The dataset record before the pipeline has touched it.
InitialDataset == [extras |-> ("source" :> <<"t", "e", "d">>), resources |-> {}]

\* The resources process_resource is called with.
Resources ==
    {Resource(<<"p", "d", "f">>, <<"r", "e", "p", "o", "r", "t", ".", "p", "d", "f">>, EmptyStr),
     Resource(<<"d", "a", "t", "a">>, <<"r", "e", "p", "o", "r", "t", ".", "p", "d", "f">>, EmptyStr),
     Resource(<<"p", "d", "f">>, <<"r", "e", "p", "o", "r", "t">>, EmptyStr),
     Resource(EmptyStr, <<"a", ".", "d", "o", "c", "x">>, EmptyStr),
     Resource(<<"d", "o", "c", "x">>, <<"d", "/", "a", ".", "d", "o", "c", "x", "?", "d", "l", "=", "1">>, EmptyStr),
     Resource(<<"D", "O", "C">>, <<"a", ".", "d", "o", "c">>, EmptyStr),
     Resource(<<"x", "l", "s", "x">>, <<"a", ".", "x", "l", "s", "x">>, EmptyStr),
     Resource(<<"X", "L", "S">>, EmptyStr, <<"a", ".", "x", "l", "s">>),
     Resource(<<"j", "p", "g">>, <<"a", ".", "p", "n", "g">>, EmptyStr),
     Resource(<<"j", "s", "o", "n">>, <<"a", ".", "j", "s", "o", "n">>, EmptyStr),
     Resource(<<"c", "s", "v">>, <<"a", ".", "c", "s", "v">>, EmptyStr),
     Resource(<<"p", "d", "f">>, <<"a", ".", "c", "s", "v">>, EmptyStr),
     Resource(None, <<"a">>, EmptyStr),
     Resource(<<"t", "x", "t">>, <<"r", "e", "p", "o", "r", "t", ".", "t", "x", "t">>, EmptyStr),
     Resource(<<"p", "d", "f">>, EmptyStr, None)}

\* A mutant of DispatchPc: the image branch does not test for gif.
DispatchPcWithoutGif(f) ==
    CASE f = <<"p", "d", "f">> -> "pdf"
      [] f = <<"d", "o", "c", "x">> -> "docx"
      [] f = <<"d", "o", "c">> -> "doc"
      [] f \in {<<"x", "l", "s", "x">>, <<"x", "l", "s">>} -> "xlsx"
      [] f \in {<<"j", "p", "e", "g">>, <<"p", "n", "g">>, <<"t", "i", "f", "f">>, <<"b", "m", "p">>} -> "image"
      [] f = <<"j", "s", "o", "n">> -> "json"
      [] OTHER -> "unsupported"

\* The branch of the if/elif chain of lines 77-104 that a resolved format takes.
DispatchPc(f) ==
    CASE f = <<"p", "d", "f">> -> "pdf"
      [] f = <<"d", "o", "c", "x">> -> "docx"
      [] f = <<"d", "o", "c">> -> "doc"
      [] f \in {<<"x", "l", "s", "x">>, <<"x", "l", "s">>} -> "xlsx"
      [] f \in {<<"j", "p", "e", "g">>, <<"p", "n", "g">>, <<"t", "i", "f", "f">>, <<"b", "m", "p">>, <<"g", "i", "f">>} -> "image"
      [] f = <<"j", "s", "o", "n">> -> "json"
      [] OTHER -> "unsupported"

\* A manifest of the links shape: one document, at links.pdf.DEU.
LinksManifest == <<"{", "\"", "l", "i", "n", "k", "s", "\"", ":", " ", "{", "\"", "p", "d", "f", "\"", ":", " ", "{", "\"", "D", "E", "U", "\"", ":", " ", "\"", "h", "/", "d", ".", "p", "d", "f", "\"", "}", "}", "}">>

\* A text that is no JSON.
BrokenManifest == <<"{", "\"", "r", "e", "l", "e", "a", "s", "e", "s", "\"", ":", " ", "[">>

\* A TED release manifest: two releases; documents with a url, without one
\* and with an empty one.
TedManifest ==
    <<"{", "\"", "r", "e", "l", "e", "a", "s", "e", "s", "\"", ":", " ", "[", "{", "\"", "t", "e", "n", "d", "e", "r", "\"", ":", " ", "{", "\"", "d", "o", "c", "u", "m", "e", "n", "t", "s", "\"", ":", " ", "[", "{", "\"", "u", "r", "l", "\"", ":", " ", "\"", "h", "/", "a", ".", "p", "d", "f", "\"", "}", ",", " ", "{", "\"", "i", "d", "\"", ":", " ", "\"", "2", "\"", "}", ",", " ", "{", "\"", "u", "r", "l", "\"", ":", " ", "\"", "\"", "}", ",", " ", "{", "\"", "u", "r", "l", "\"", ":", " ", "\"", "h", "/", "b", "\"", "}", "]", "}", "}", ",", " ", "{", "\"", "t", "e", "n", "d", "e", "r", "\"", ":", " ", "{", "\"", "d", "o", "c", "u", "m", "e", "n", "t", "s", "\"", ":", " ", "[", "{", "\"", "u", "r", "l", "\"", ":", " ", "\"", "h", "/", "c", "?", "x", "\"", "}", "]", "}", "}", "]", "}">>

\* A manifest that has both releases and links.pdf.DEU.
TedWithLinksManifest ==
    <<"{", "\"", "r", "e", "l", "e", "a", "s", "e", "s", "\"", ":", " ", "[", "{", "\"", "t", "e", "n", "d", "e", "r", "\"", ":", " ", "{", "\"", "d", "o", "c", "u", "m", "e", "n", "t", "s", "\"", ":", " ", "[", "{", "\"", "u", "r", "l", "\"", ":", " ", "\"", "h", "/", "a", ".", "p", "d", "f", "\"", "}", "]", "}", "}", "]", ",", " ", "\"", "l", "i", "n", "k", "s", "\"", ":", " ", "{", "\"", "p", "d", "f", "\"", ":", " ", "{", "\"", "D", "E", "U", "\"", ":", " ", "\"", "h", "/", "d", ".", "p", "d", "f", "\"", "}", "}", "}">>

\* A manifest of more arrays in one another than any stack leaves room for.
DeepManifest == Nested(RecursionLimit)

\* Manifest texts with ObjectId tokens, cut at the tokens: the pieces at odd
\* places are the text around the tokens, those at even places the payloads.
ObjectIdTemplates ==
    {<<<<"{", "\"", "_", "i", "d", "\"", ":", " ">>, <<"5", "f", "1", "b">>, <<",", " ", "\"", "l", "i", "n", "k", "s", "\"", ":", " ", "{", "\"", "p", "d", "f", "\"", ":", " ", "{", "\"", "D", "E", "U", "\"", ":", " ", "\"", "h", "/", "d", ".", "p", "d", "f", "\"", "}", "}", "}">>>>,
     <<<<"{", "\"", "_", "i", "d", "\"", ":", " ">>, <<"0", "a">>, <<",", " ", "\"", "r", "e", "l", "e", "a", "s", "e", "s", "\"", ":", " ", "[", "{", "\"", "i", "d", "\"", ":", " ">>, <<"9">>,
       <<",", " ", "\"", "t", "e", "n", "d", "e", "r", "\"", ":", " ", "{", "\"", "d", "o", "c", "u", "m", "e", "n", "t", "s", "\"", ":", " ", "[", "{", "\"", "u", "r", "l", "\"", ":", " ", "\"", "h", "/", "a", ".", "p", "d", "f", "\"", "}", "]", "}", "}", "]", "}">>>>,
     <<<<"[">>, <<"c", "0", "f", "f", "e", "e">>, <<"]">>>>,
     <<<<"{", "\"", "_", "i", "d", "\"", ":", " ">>, <<"5", "f", "1", "b">>, <<",", " ", "\"", "l", "i", "n", "k", "s", "\"", ":", " ">>>>,
     <<<<"{", "\"", "_", "i", "d", "\"", ":", " ">>, <<"5", "F", "1", "B">>, <<",", " ", "\"", "l", "i", "n", "k", "s", "\"", ":", " ", "{", "\"", "p", "d", "f", "\"", ":", " ", "{", "\"", "D", "E", "U", "\"", ":", " ", "\"", "h", "/", "d", ".", "p", "d", "f", "\"", "}", "}", "}">>>>,
     <<<<"{", "\"", "_", "i", "d", "\"", ":", " ">>, EmptyStr, <<"}">>>>}

\* The text of a template: each payload p stands in it as ObjectId("p").
WithObjectIds(pieces) ==
    ConcatAll([i \in 1..Len(pieces) |->
                  IF i % 2 = 1 THEN pieces[i] ELSE <<"O", "b", "j", "e", "c", "t", "I", "d", "(", "\"">> \o pieces[i] \o <<"\"", ")">>])

\* Manifests whose text holds ObjectId tokens.
ObjectIdManifests == {WithObjectIds(pieces) : pieces \in ObjectIdTemplates}

\* The texts of the manifests process_resource is given.
ManifestTexts ==
    {LinksManifest, BrokenManifest, TedManifest, TedWithLinksManifest,
     EmptyStr, <<" ", "{", "}", " ", "\n">>, <<"[", "{", "\"", "u", "r", "l", "\"", ":", " ", "\"", "h", "/", "a", ".", "p", "d", "f", "\"", "}", "]">>, <<"7">>, <<"1", ".", "5">>,
     <<"{", "\"", "l", "i", "n", "k", "s", "\"", ":", " ", "{", "\"", "p", "d", "f", "\"", ":", " ", "{", "\"", "E", "N", "G", "\"", ":", " ", "\"", "h", "/", "e", ".", "p", "d", "f", "\"", "}", "}", "}">>,
     <<"{", "\"", "l", "i", "n", "k", "s", "\"", ":", " ", "{", "\"", "p", "d", "f", "\"", ":", " ", "{", "\"", "D", "E", "U", "\"", ":", " ", "\"", "\"", "}", "}", "}">>,
     <<"{", "\"", "l", "i", "n", "k", "s", "\"", ":", " ", "\"", "h", "/", "d", ".", "p", "d", "f", "\"", "}">>,
     <<"{", "\"", "r", "e", "l", "e", "a", "s", "e", "s", "\"", ":", " ", "[", "]", ",", " ", "\"", "l", "i", "n", "k", "s", "\"", ":", " ", "{", "\"", "p", "d", "f", "\"", ":", " ", "{", "\"", "D", "E", "U", "\"", ":", " ", "\"", "h", "/", "d", ".", "p", "d", "f", "\"", "}", "}", "}">>,
     <<"{", "\"", "r", "e", "l", "e", "a", "s", "e", "s", "\"", ":", " ", "[", "{", "}", ",", " ", "{", "\"", "t", "e", "n", "d", "e", "r", "\"", ":", " ", "{", "}", "}", ",", " ", "{", "\"", "t", "e", "n", "d", "e", "r", "\"", ":", " ", "{", "\"", "d", "o", "c", "u", "m", "e", "n", "t", "s", "\"", ":", " ", "[", "{", "\"", "u", "r", "l", "\"", ":", " ", "n", "u", "l", "l", "}", ",", " ", "{", "\"", "u", "r", "l", "\"", ":", " ", "\"", "h", "/", "b", "\"", "}", "]", "}", "}", "]", "}">>,
     <<"{", "\"", "r", "e", "l", "e", "a", "s", "e", "s", "\"", ":", " ", "[", "{", "\"", "t", "e", "n", "d", "e", "r", "\"", ":", " ", "{", "\"", "d", "o", "c", "u", "m", "e", "n", "t", "s", "\"", ":", " ", "[", "{", "\"", "u", "r", "l", "\"", ":", " ", "\"", "h", "/", "a", ".", "p", "d", "f", "\"", "}", ",", " ", "{", "\"", "u", "r", "l", "\"", ":", " ", "\"", "h", "/", "a", ".", "p", "d", "f", "\"", "}", "]", "}", "}", "]", "}">>,
     <<"{", "\"", "r", "e", "l", "e", "a", "s", "e", "s", "\"", ":", " ", "[", "{", "\"", "t", "e", "n", "d", "e", "r", "\"", ":", " ", "n", "u", "l", "l", "}", ",", " ", "{", "\"", "t", "e", "n", "d", "e", "r", "\"", ":", " ", "{", "\"", "d", "o", "c", "u", "m", "e", "n", "t", "s", "\"", ":", " ", "[", "{", "\"", "u", "r", "l", "\"", ":", " ", "\"", "h", "/", "b", "\"", "}", "]", "}", "}", "]", "}">>,
     <<"{", "\"", "r", "e", "l", "e", "a", "s", "e", "s", "\"", ":", " ", "[", "{", "\"", "t", "e", "n", "d", "e", "r", "\"", ":", " ", "{", "\"", "d", "o", "c", "u", "m", "e", "n", "t", "s", "\"", ":", " ", "[", "{", "\"", "u", "r", "l", "\"", ":", " ", "7", "}", ",", " ", "{", "\"", "u", "r", "l", "\"", ":", " ", "\"", "h", "\\", "/", "b", "\"", ",", " ", "\"", "n", "\"", ":", " ", "-", "1", ".", "5", "e", "0", "}", "]", "}", "}", "]", "}">>,
     <<"{", "\"", "r", "e", "l", "e", "a", "s", "e", "s", "\"", ":", " ", "n", "u", "l", "l", "}">>, DeepManifest}
        \cup ObjectIdManifests

\* The urls of the manifests of the model, and the Content-Disposition
\* headers their servers answer with.
ManifestHeaders(file_url) ==
    CASE file_url = <<"h", "/", "a", ".", "p", "d", "f">> -> {None, <<"a", "t", "t", "a", "c", "h", "m", "e", "n", "t", ";", " ", "f", "i", "l", "e", "n", "a", "m", "e", "=", "\"", "r", ".", "p", "d", "f", "\"">>}
      [] file_url = <<"h", "/", "b">> -> {None, <<"i", "n", "l", "i", "n", "e", ";", " ", "f", "i", "l", "e", "n", "a", "m", "e", "=", "b", ".", "P", "D", "F">>}
      [] OTHER -> {None}

\* The Content-Disposition headers of the documents fetched directly.
ContentDispositions ==
    {None, EmptyStr, <<"a", "t", "t", "a", "c", "h", "m", "e", "n", "t">>, <<"i", "n", "l", "i", "n", "e", ";", " ", "f", "i", "l", "e", "n", "a", "m", "e", "=", "b", ".", "P", "D", "F">>,
     <<"a", "t", "t", "a", "c", "h", "m", "e", "n", "t", ";", " ", "f", "i", "l", "e", "n", "a", "m", "e", "=", "\"", "r", ".", "p", "d", "f", "\"">>, <<"a", "t", "t", "a", "c", "h", "m", "e", "n", "t", ";", " ", "f", "i", "l", "e", "n", "a", "m", "e", "=", "\"", "m", "y", " ", "r", "e", "p", "o", "r", "t", "\"", ";", " ", "s", "i", "z", "e", "=", "3">>,
     <<"a", "t", "t", "a", "c", "h", "m", "e", "n", "t", ";", " ", "f", "i", "l", "e", "n", "a", "m", "e", "=", "r", ".", "p", "d", "f", ";", " ", "f", "i", "l", "e", "n", "a", "m", "e", "*", "=", "U", "T", "F", "-", "8", "'", "'", "x", ".", "p", "d", "f">>,
     <<"a", "t", "t", "a", "c", "h", "m", "e", "n", "t", ";", " ", "f", "i", "l", "e", "n", "a", "m", "e", "*", "=", "U", "T", "F", "-", "8", "'", "'", "x", ".", "p", "d", "f">>, <<"a", "t", "t", "a", "c", "h", "m", "e", "n", "t", ";", " ", "f", "i", "l", "e", "n", "a", "m", "e", "=", "\"", "\"">>,
     <<"a", "t", "t", "a", "c", "h", "m", "e", "n", "t", ";", " ", "f", "i", "l", "e", "n", "a", "m", "e", "=", "r", ".", "d", "o", "c", "x">>}

\* The urls upload_pdf_from_url is called with directly.
FetchUrls ==
    {<<"h", ":", "/", "/", "s", ".", "d", "e", "/", "d", "/", "d", "o", "c", ".", "p", "d", "f">>, <<"h", ":", "/", "/", "s", ".", "d", "e", "/", "d", "/", "d", "o", "c", ".", "P", "D", "F", "?", "d", "l", "=", "1">>, <<"h", ":", "/", "/", "s", ".", "d", "e", "/", "d", "/">>,
     <<"h", ":", "/", "/", "s", ".", "d", "e", "/", "g", "e", "t", "?", "i", "d", "=", "3">>, <<"h", ":", "/", "/", "s", ".", "d", "e", "/", "d", "/", "s", "c", "a", "n", ".", "p", "d", "f", ".", "b", "a", "k">>, <<"d", "o", "c">>}

\* The headers the server of a url answers with.
ResponseHeaders(file_url) ==
    IF file_url \in FetchUrls THEN ContentDispositions ELSE ManifestHeaders(file_url)

\* Files of each kind, as process_resource finds them at the storage path.
SampleFiles ==
    {PdfFile(<<<<"a", "b", "c">>>>, <<"s", "c", "a", "n">>),
     PdfFile(<<<<"a", "b", "c">>, None>>, <<"s", "c", "a", "n">>),
     DocxFile(<<<<"p">>, EmptyStr>>),
     DocFile(<<"h", "i">>),
     WorkbookFile("xlsx", ExampleWorkbook),
     WorkbookFile("xls", <<<<<<CInt(1), CNone>>>>>>),
     ImageFile(<<"s", "c", "a", "n">>),
     JsonFile(LinksManifest), JsonFile(BrokenManifest)}

\* The kind of file each dispatch branch expects.
BranchKinds(branch) ==
    CASE branch = "pdf" -> {"pdf"}
      [] branch = "docx" -> {"docx"}
      [] branch = "doc" -> {"doc"}
      [] branch = "xlsx" -> {"xlsx", "xls"}
      [] branch = "image" -> {"image"}
      [] branch = "json" -> {"json"}
      [] OTHER -> {"pdf"}

\* The files a resource is processed with: none, an empty one, the files of
\* the kind its name promises, and one of another kind.
ProcessFiles(res) ==
    {MissingFile, ZeroByteFile, IF res.format = <<"p", "d", "f">> THEN DocFile(<<"h", "i">>) ELSE PdfFile(<<<<"a", "b", "c">>>>, <<"s", "c", "a", "n">>)}
        \cup {f \in SampleFiles :
                 f.kind \in BranchKinds(DispatchPc(ExtFmt(PyOr(UrlOrName(res), EmptyStr))))}

\* The extractors a caller can call directly, and the files it passes.
ExtractorFiles(name) ==
    {MissingFile, ZeroByteFile} \cup
    CASE name = "extract_text_pdf" -> PdfFiles \cup {ImageFile(<<"s", "c", "a", "n">>)}
      [] name = "extract_text_doc" -> DocFiles \cup {PdfFile(<<<<"a", "b", "c">>>>, EmptyStr)}
      [] name = "extract_text_xlsx" -> WorkbookFiles \cup {DocFile(<<"h", "i">>)}
      [] name = "extract_text_image" -> ImageFiles \cup {DocFile(<<"h", "i">>)}

Extractors ==
    {"extract_text_pdf", "extract_text_doc", "extract_text_xlsx", "extract_text_image"}

\* The label at which each extractor starts.
ExtractorPc(name) ==
    CASE name = "extract_text_pdf" -> "pdf"
      [] name = "extract_text_doc" -> "doc"
      [] name = "extract_text_xlsx" -> "xlsx"
      [] name = "extract_text_image" -> "image"

filepath == get_path(resource.id)

\* The library can read the file: it is there, not empty, and of a kind the
\* library reads.
Readable(kinds) == file.exists /\ file.size > 0 /\ file.kind \in kinds

\* No upload_to_ckan call is running.
NoResponse == [kind |-> "none", body |-> EmptyStr, status |-> 0]

\* No call is remembered.
NoPrev == [calls |-> << >>]

\* The invocations that can run side by side.
Jobs == {1, 2}

\* An invocation that has not begun.
NoJob ==
    [pc |-> "idle", resource |-> NoResource, text |-> EmptyStr, snapshot |-> None,
     body |-> None, artifact |-> None, ended |-> "no", alone |-> TRUE, overwrote |-> FALSE]

\* A resource event: the resource, the resource whose processing created it,
\* the function that created it, how many creations lie between it and the
\* event of the client, and the last post of the call for this event whose
\* resource has been through the hook.
NoEvent ==
    [resource |-> NoResource, parent |-> NoResource, maker |-> "none", gen |-> 0,
     hooked |-> 0]

\* No call waits in a post and no event is handled.
NoChain == [stack |-> << >>, now |-> NoEvent, made |-> 0]

InitBeside ==
    /\ response = NoResponse
    /\ prev = NoPrev
    /\ jobs = [j \in Jobs |-> NoJob]
    /\ tmpdata = << >>
    /\ snapshot = None
    /\ chain = NoChain

Init ==
    /\ pc = "idle"
    /\ entry = "none"
    /\ impl \in Impls
    /\ resource = NoResource
    /\ file = MissingFile
    /\ fmt = None
    /\ text = EmptyStr
    /\ bound = NoBound
    /\ result = NoResult
    /\ calls = << >>
    /\ caught = << >>
    /\ dataset = InitialDataset
    /\ uploads = << >>
    /\ tmpfiles = {}
    /\ json_obj = JNull
    /\ pending = << >>
    /\ fetched = << >>
    /\ InitBeside

\* ------------------------------------------------------------------------
\* Calls
\* ------------------------------------------------------------------------

\* How many temporary files of downloads that broke off the model lets pile
\* up under /tmp before it makes no further call.
MaxLeaked == 2

\* The name of the k-th temporary file.
TmpPath(k) == <<"/", "t", "m", "p", "/", "t", "m", "p">> \o IntToStr(k) \o <<".", "p", "d", "f">>

\* tempfile.NamedTemporaryFile(delete=False, suffix=".pdf"): a name no
\* existing file has.
NewTmpPath(files) ==
    TmpPath(SetMin({k \in 1..(Cardinality(files) + 1) : TmpPath(k) \notin files}))

\* The temporary files that were created and never removed.
Leaked(files) == {k \in 1..Cardinality(files) : TmpPath(k) \in files}

BeginCall(e, r, f, at) ==
    /\ pc = "idle"
    /\ Cardinality(Leaked(tmpfiles)) < MaxLeaked
    /\ pc' = at
    /\ entry' = e
    /\ resource' = r
    /\ file' = f
    /\ fmt' = None
    /\ text' = EmptyStr
    /\ bound' = NoBound
    /\ result' = NoResult
    /\ calls' = << >>
    /\ caught' = << >>
    /\ uploads' = << >>
    /\ json_obj' = JNull
    /\ pending' = << >>
    /\ fetched' = << >>
    /\ UNCHANGED <<impl, beside, dataset, tmpfiles>>

\* A caller (a hook or the action) calls process_resource(resource).
CallProcess ==
    \E r \in Resources :
        \E f \in ProcessFiles(r) :
            BeginCall("process_resource", r, f, "resolve")

\* A caller calls one extractor on a file path.
CallExtractor ==
    \E e \in Extractors :
        \E f \in ExtractorFiles(e) :
            BeginCall(e, NoResource, f, ExtractorPc(e))

\* process_resource is called on a manifest.
CallManifest ==
    \E t \in ManifestTexts :
        BeginCall("process_resource", Resource(<<"j", "s", "o", "n">>, <<"a", ".", "j", "s", "o", "n">>, EmptyStr),
                  JsonFile(t), "resolve")

\* A caller calls upload_pdf_from_url(file_url, dataset_id).
CallFetch ==
    /\ pc = "idle"
    /\ pc' = "fetch"
    /\ entry' = "upload_pdf_from_url"
    /\ \E file_url \in FetchUrls : pending' = <<JStr(file_url)>>
    /\ UNCHANGED <<impl, beside, resource, file, fmt, text, bound, result, calls, caught,
                   dataset, uploads, tmpfiles, json_obj, fetched>>

\* The resources the plugin's entry points are called on: one for each branch
\* of the dispatch.
PluginResources ==
    {Resource(<<"p", "d", "f">>, <<"r", "e", "p", "o", "r", "t", ".", "p", "d", "f">>, EmptyStr),
     Resource(EmptyStr, <<"a", ".", "d", "o", "c", "x">>, EmptyStr),
     Resource(<<"D", "O", "C">>, <<"a", ".", "d", "o", "c">>, EmptyStr),
     Resource(<<"x", "l", "s", "x">>, <<"a", ".", "x", "l", "s", "x">>, EmptyStr),
     Resource(<<"j", "p", "g">>, <<"a", ".", "p", "n", "g">>, EmptyStr),
     Resource(<<"j", "s", "o", "n">>, <<"a", ".", "j", "s", "o", "n">>, EmptyStr),
     Resource(<<"c", "s", "v">>, <<"a", ".", "c", "s", "v">>, EmptyStr),
     Resource(<<"p", "d", "f">>, EmptyStr, None)}

\* CKAN calls a hook of the plugin after a resource was created or updated.
CallHook ==
    \E h \in {"after_resource_create", "after_resource_update"}, r \in PluginResources :
        \E f \in ProcessFiles(r) :
            BeginCall(h, r, f, "resolve")

\* A request without a resource_id.
NoIdRequest == [NoResource EXCEPT !.id = EmptyStr]

\* A client calls the action docuvision_process_document; resource is the
\* resource its resource_id names.
CallAction ==
    \E r \in PluginResources \cup {NoIdRequest} :
        \E f \in ProcessFiles(r) :
            BeginCall("docuvision_process_document", r, f, "lookup")

\* The entry points of the plugin that run the pipeline: the action and the
\* two hooks.
PluginEntries ==
    {"docuvision_process_document", "after_resource_create", "after_resource_update"}

\* The callers in which process_resource runs.
PipelineEntries == {"process_resource"} \cup PluginEntries

\* Where control goes when the called function ends: back into the entry
\* point that called it, or to the caller of the model.
EndPc == IF entry \in PluginEntries THEN "caller" ELSE "done"

\* The call ends by raising.
Raise(ty, m) ==
    /\ pc' = EndPc
    /\ result' = Raised(ty, m)

\* The call ends by returning v.
Return(v) ==
    /\ pc' = EndPc
    /\ result' = Returned(v)

\* A mutant of Extracted: the pipeline keeps state between calls; a call that
\* finds a file of an earlier call in /tmp gives no text.
ExtractedUnlessScratch(t) ==
    /\ text' = IF tmpfiles = {} THEN t ELSE EmptyStr
    /\ IF entry \in PipelineEntries
       THEN pc' = "store" /\ UNCHANGED result
       ELSE Return(t)

\* An extractor returns t: to process_resource, which goes on to persist it,
\* or to the caller that called the extractor.
Extracted(t) ==
    /\ text' = t
    /\ IF entry \in PipelineEntries
       THEN pc' = "store" /\ UNCHANGED result
       ELSE Return(t)

Called(name) == calls' = Append(calls, name)

\* A handler catches (and logs) an exception whose str() is m.
Catch(m) == caught' = Append(caught, m)

\* A handler catches an exception, logs it and raises it again.
Reraise(ty, m) == Catch(m) /\ Raise(ty, m)

\* How often name occurs in a sequence of calls.
Count(s, name) == Cardinality({i \in 1..Len(s) : s[i] = name})

\* The call has uploaded a file of this name and content.
Uploaded(u) == \E i \in 1..Len(uploads) : uploads[i] = u

\* The call's frame is gone.
EndOfCall ==
    /\ pc' = "idle"
    /\ entry' = "none"
    /\ resource' = NoResource
    /\ file' = MissingFile
    /\ fmt' = None
    /\ text' = EmptyStr
    /\ bound' = NoBound
    /\ result' = NoResult
    /\ calls' = << >>
    /\ caught' = << >>
    /\ uploads' = << >>
    /\ json_obj' = JNull
    /\ pending' = << >>
    /\ fetched' = << >>

\* The caller takes the outcome and the call's frame is gone; the next call
\* can start.
Finish ==
    /\ pc = "done"
    /\ pc' = "idle"
    /\ entry' = "none"
    /\ resource' = NoResource
    /\ file' = MissingFile
    /\ fmt' = None
    /\ text' = EmptyStr
    /\ bound' = NoBound
    /\ result' = NoResult
    /\ calls' = << >>
    /\ caught' = << >>
    /\ uploads' = << >>
    /\ json_obj' = JNull
    /\ pending' = << >>
    /\ fetched' = << >>
    /\ UNCHANGED <<impl, beside, dataset, tmpfiles>>

\* The caller takes the outcome, and the next call is made on the dataset and
\* the /tmp directory the first call started with.
FinishFresh ==
    /\ pc = "done"
    /\ pc' = "idle"
    /\ entry' = "none"
    /\ resource' = NoResource
    /\ file' = MissingFile
    /\ fmt' = None
    /\ text' = EmptyStr
    /\ bound' = NoBound
    /\ result' = NoResult
    /\ calls' = << >>
    /\ caught' = << >>
    /\ uploads' = << >>
    /\ json_obj' = JNull
    /\ pending' = << >>
    /\ fetched' = << >>
    /\ dataset' = InitialDataset
    /\ tmpfiles' = {}
    /\ UNCHANGED <<impl, beside>>

\* ------------------------------------------------------------------------
\* process_resource: resolve, find the file, dispatch
\* ------------------------------------------------------------------------

\* Lines 44-62: the format is resolved from the declared format and the
\* extension of the url (or the name).  os.path.splitext raises TypeError when
\* the url is empty and the name is None.
Resolve ==
    /\ pc = "resolve"
    /\ IF UrlOrName(resource) = None
       THEN /\ Raise("TypeError", <<"e", "x", "p", "e", "c", "t", "e", "d", " ", "s", "t", "r", ",", " ", "b", "y", "t", "e", "s", " ", "o", "r", " ", "o", "s", ".", "P", "a", "t", "h", "L", "i", "k", "e", " ", "o", "b", "j", "e", "c", "t", ",", " ", "n", "o", "t", " ", "N", "o", "n", "e", "T", "y", "p", "e">>)
            /\ UNCHANGED fmt
       ELSE /\ fmt' = ResolveFmt(resource)
            /\ pc' = "check_file"
            /\ UNCHANGED result
    /\ UNCHANGED <<json_obj, pending, fetched, entry, impl, beside, resource, file, text, bound, calls, caught, dataset,
                   uploads, tmpfiles>>

\* Lines 68-75: the file must exist, whatever the format.
CheckFile ==
    /\ pc = "check_file"
    /\ Called("os.path.isfile")
    /\ IF ~file.exists
       THEN Raise("Exception", <<"F", "i", "l", "e", " ", "n", "o", "t", " ", "f", "o", "u", "n", "d", ":", " ">> \o filepath)
       ELSE pc' = "dispatch" /\ UNCHANGED result
    /\ UNCHANGED <<json_obj, pending, fetched, entry, impl, beside, resource, file, fmt, text, bound, caught, dataset,
                   uploads, tmpfiles>>

\* Lines 77-104: an unsupported format is logged and the call returns.
Dispatch ==
    /\ pc = "dispatch"
    /\ IF DispatchPc(fmt) = "unsupported"
       THEN Return(None)
       ELSE pc' = DispatchPc(fmt) /\ UNCHANGED result
    /\ UNCHANGED <<json_obj, pending, fetched, entry, impl, beside, resource, file, fmt, text, bound, calls, caught,
                   dataset, uploads, tmpfiles>>

\* ------------------------------------------------------------------------
\* extract_text_pdf and extract_text_tesseract
\* ------------------------------------------------------------------------

\* The embedded text is read page by page; text shorter than MinTextLen sends
\* the file to OCR.  Every exception is logged and raised again.
ExtractPdf ==
    /\ pc = "pdf"
    /\ calls' = calls \o (IF file.exists THEN <<"open", "PyPDF2.PdfReader">> ELSE <<"open">>)
    /\ IF ~file.exists
       THEN /\ Reraise("FileNotFoundError",
                       <<"[", "E", "r", "r", "n", "o", " ", "2", "]", " ", "N", "o", " ", "s", "u", "c", "h", " ", "f", "i", "l", "e", " ", "o", "r", " ", "d", "i", "r", "e", "c", "t", "o", "r", "y", ":", " ", "'">> \o filepath \o <<"'">>)
            /\ UNCHANGED text
       ELSE IF ~Readable({"pdf"})
       THEN /\ \E m \in ErrMsgs : Reraise("PdfReadError", m)
            /\ UNCHANGED text
       ELSE IF NeedsOcr(PdfDirectText(file.pages))
       THEN /\ pc' = "ocr"
            /\ text' = PdfDirectText(file.pages)
            /\ UNCHANGED <<result, caught>>
       ELSE /\ Extracted(PdfDirectText(file.pages))
            /\ UNCHANGED caught
    /\ UNCHANGED <<json_obj, pending, fetched, entry, impl, beside, resource, file, fmt, bound, dataset, uploads, tmpfiles>>

\* A mutant of OcrFailed: the handler raises the exception again.
OcrFailedRaises(m) == Reraise("Exception", m) /\ UNCHANGED text

\* A mutant of OcrFailed: the handler tries the OCR fallback again.
OcrFailedRetries(m) == Catch(m) /\ pc' = "ocr" /\ UNCHANGED <<text, result>>

\* Lines 50-52 of extract_text_tesseract: except Exception as e: print(...);
\* return ""
OcrFailed(m) == Catch(m) /\ Extracted(EmptyStr)

\* The OCR fallback: each page is rendered and read; every failure is printed
\* and the empty string is returned.
Tesseract ==
    /\ pc = "ocr"
    /\ Called("extract_text_tesseract")
    /\ \/ /\ Readable({"pdf"})
          /\ Extracted(TesseractText(file))
          /\ UNCHANGED caught
       \/ \E m \in ErrMsgs : OcrFailed(m)
    /\ UNCHANGED <<json_obj, pending, fetched, entry, impl, beside, resource, file, fmt, bound, dataset, uploads, tmpfiles>>

\* ------------------------------------------------------------------------
\* extract_text_docx
\* ------------------------------------------------------------------------

\* def extract_text_docx(self, filepath) in extractors.py, and the same
\* signature for the method of the plugin.
extract_text_docx_params == <<"self", "filepath">>

\* The arguments the call in process_resource binds: extract_text_docx(filepath)
\* in processing.py, self._extract_text_docx(filepath) in plugin.py (a bound
\* method supplies self).
DocxCallArgs(i) == IF i = "plugin" THEN <<"self", "filepath">> ELSE <<"filepath">>

\* A call that binds fewer arguments than the function has parameters raises
\* TypeError before the body runs; else the paragraphs are read and joined,
\* and every exception is logged and raised again.
ExtractDocx ==
    /\ pc = "docx"
    /\ IF Len(DocxCallArgs(impl)) # Len(extract_text_docx_params)
       THEN /\ Raise("TypeError",
                     <<"e", "x", "t", "r", "a", "c", "t", "_", "t", "e", "x", "t", "_", "d", "o", "c", "x", "(", ")", " ", "m", "i", "s", "s", "i", "n", "g", " ", "1", " ", "r", "e", "q", "u", "i", "r", "e", "d", " ", "p", "o", "s", "i", "t", "i", "o", "n", "a", "l", " ", "a", "r", "g", "u", "m", "e", "n", "t", ":", " ", "'", "f", "i", "l", "e", "p", "a", "t", "h", "'">>)
            /\ UNCHANGED <<text, calls, caught>>
       ELSE /\ Called("docx.Document")
            /\ IF Readable({"docx"})
               THEN Extracted(DocxText(file.paragraphs)) /\ UNCHANGED caught
               ELSE /\ \E m \in ErrMsgs : Reraise("PackageNotFoundError", m)
                    /\ UNCHANGED text
    /\ UNCHANGED <<json_obj, pending, fetched, entry, impl, beside, resource, file, fmt, bound, dataset, uploads, tmpfiles>>

\* ------------------------------------------------------------------------
\* extract_text_doc
\* ------------------------------------------------------------------------

ImportErrorMsg == <<"N", "o", " ", "m", "o", "d", "u", "l", "e", " ", "n", "a", "m", "e", "d", " ", "'", "t", "e", "x", "t", "r", "a", "c", "t", "'">>

\* import textract, then textract.process.  A failed import is caught by the
\* outer handler only, which logs and raises again; a failure of
\* textract.process is bound to textract_err and leads to antiword.
ExtractDoc ==
    /\ pc = "doc"
    /\ \/ /\ calls' = calls \o <<"import textract">>
          /\ Reraise("ModuleNotFoundError", ImportErrorMsg)
          /\ UNCHANGED <<text, bound>>
       \/ /\ calls' = calls \o <<"import textract", "textract.process">>
          /\ Readable({"doc"})
          /\ Extracted(Decode(file.bytes))
          /\ UNCHANGED <<bound, caught>>
       \/ /\ calls' = calls \o <<"import textract", "textract.process">>
          /\ \E m \in ErrMsgs : bound' = ("textract_err" :> m) /\ Catch(m)
          /\ pc' = "antiword"
          /\ UNCHANGED <<text, result>>
    /\ UNCHANGED <<json_obj, pending, fetched, entry, impl, beside, resource, file, fmt, dataset, uploads, tmpfiles>>

\* subprocess.check_output(["antiword", filepath]) inside the handler of the
\* textract failure, where textract_err is still bound.  When antiword fails
\* too, the composite exception is raised, and the outer handler logs it and
\* raises it again.
Antiword ==
    /\ pc = "antiword"
    /\ Called("antiword")
    /\ \/ /\ Readable({"doc"})
          /\ Extracted(Decode(file.bytes))
          /\ UNCHANGED caught
       \/ /\ \E m \in ErrMsgs :
                /\ caught' = caught \o <<m, DocCompositeMsg(bound["textract_err"], m)>>
                /\ Raise("Exception", DocCompositeMsg(bound["textract_err"], m))
          /\ UNCHANGED text
    /\ UNCHANGED <<json_obj, pending, fetched, entry, impl, beside, resource, file, fmt, bound, dataset, uploads, tmpfiles>>

\* ------------------------------------------------------------------------
\* extract_text_xlsx
\* ------------------------------------------------------------------------

\* Python 3 deletes the target of `except ... as name` when the except clause
\* ends.
ExceptClauseEnds(b, name) == [v \in (DOMAIN b) \ {name} |-> b[v]]

\* A mutant of PrimaryFailed: the handler of the first try block raises the
\* exception again instead of falling through to xlrd.
PrimaryFailedRaises(m) ==
    /\ Reraise("Exception", m)
    /\ UNCHANGED bound

\* except Exception as e: the exception of the first try block is bound to e
\* and logged, the clause ends, and control falls through to the second try.
PrimaryFailed(m) ==
    /\ Catch(m)
    /\ bound' = ExceptClauseEnds(("e" :> m) @@ bound, "e")
    /\ pc' = "xlrd"
    /\ UNCHANGED result

\* The first try block: the file checks, then openpyxl.
XlsxPrimary ==
    /\ pc = "xlsx"
    /\ \/ /\ ~file.exists
          /\ calls' = calls \o <<"os.path.isfile">>
          /\ PrimaryFailed(<<"F", "i", "l", "e", " ", "d", "o", "e", "s", " ", "n", "o", "t", " ", "e", "x", "i", "s", "t", ":", " ">> \o filepath)
          /\ UNCHANGED text
       \/ /\ file.exists /\ file.size = 0
          /\ calls' = calls \o <<"os.path.isfile", "os.path.getsize">>
          /\ PrimaryFailed(<<"F", "i", "l", "e", " ", "i", "s", " ", "e", "m", "p", "t", "y", ":", " ">> \o filepath)
          /\ UNCHANGED text
       \/ /\ file.exists /\ file.size # 0
          /\ calls' = calls \o <<"os.path.isfile", "os.path.getsize", "openpyxl.load_workbook">>
          /\ \E m \in ErrMsgs : PrimaryFailed(m)
          /\ UNCHANGED text
       \/ /\ Readable({"xlsx"})
          /\ calls' = calls \o <<"os.path.isfile", "os.path.getsize", "openpyxl.load_workbook">>
          /\ Extracted(SheetsText(OpenpyxlValues(file.sheets)))
          /\ UNCHANGED <<bound, caught>>
    /\ UNCHANGED <<json_obj, pending, fetched, entry, impl, beside, resource, file, fmt, dataset, uploads, tmpfiles>>

\* str(e2) when `import xlrd` finds no such module.
XlrdMissingMsg == <<"N", "o", " ", "m", "o", "d", "u", "l", "e", " ", "n", "a", "m", "e", "d", " ", "'", "x", "l", "r", "d", "'">>

\* except Exception as e2: the handler logs e2 and builds the message of the
\* composite failure from e and e2; reading e when it is no longer bound
\* raises UnboundLocalError instead.
FallbackFailed(e2) ==
    /\ Catch(e2)
    /\ IF "e" \in DOMAIN bound
       THEN Raise("Exception", XlsxCompositeMsg(bound["e"], e2))
       ELSE \E m \in UnboundLocalMsgs : Raise("UnboundLocalError", m)
    /\ UNCHANGED text

\* The second try block: the import of xlrd, then xlrd.open_workbook.
XlsxFallback ==
    /\ pc = "xlrd"
    /\ \/ /\ Readable({"xls", "xlsx"})
          /\ calls' = calls \o <<"import xlrd", "xlrd.open_workbook">>
          /\ Extracted(SheetsText(XlrdValues(file.sheets)))
          /\ UNCHANGED caught
       \/ /\ calls' = calls \o <<"import xlrd">>
          /\ FallbackFailed(XlrdMissingMsg)
       \/ /\ calls' = calls \o <<"import xlrd", "xlrd.open_workbook">>
          /\ \E e2 \in ErrMsgs : FallbackFailed(e2)
    /\ UNCHANGED <<json_obj, pending, fetched, entry, impl, beside, resource, file, fmt, bound, dataset, uploads, tmpfiles>>

\* ------------------------------------------------------------------------
\* extract_text_image
\* ------------------------------------------------------------------------

TesseractMissingMsg == <<"T", "e", "s", "s", "e", "r", "a", "c", "t", " ", "O", "C", "R", " ", "i", "s", " ", "n", "o", "t", " ", "i", "n", "s", "t", "a", "l", "l", "e", "d", " ", "o", "r", " ", "n", "o", "t", " ", "i", "n", " ", "s", "y", "s", "t", "e", "m", " ", "P", "A", "T", "H", ".">>

\* The file checks, Image.open and pytesseract.  The handlers log; a missing
\* engine and an engine failure are raised as new exceptions, everything else
\* is raised again: what Image.open raises, and what image_to_string raises
\* that is neither of the two (an OSError of an image that breaks off while
\* it is loaded, say).
ExtractImage ==
    /\ pc = "image"
    /\ \/ /\ ~file.exists
          /\ calls' = calls \o <<"os.path.isfile">>
          /\ Reraise("Exception", <<"I", "m", "a", "g", "e", " ", "f", "i", "l", "e", " ", "d", "o", "e", "s", " ", "n", "o", "t", " ", "e", "x", "i", "s", "t", ":", " ">> \o filepath)
          /\ UNCHANGED text
       \/ /\ file.exists /\ file.size = 0
          /\ calls' = calls \o <<"os.path.isfile", "os.path.getsize">>
          /\ Reraise("Exception", <<"I", "m", "a", "g", "e", " ", "f", "i", "l", "e", " ", "i", "s", " ", "e", "m", "p", "t", "y", ":", " ">> \o filepath)
          /\ UNCHANGED text
       \/ /\ file.exists /\ file.size # 0 /\ file.kind # "image"
          /\ calls' = calls \o <<"os.path.isfile", "os.path.getsize", "Image.open">>
          /\ \E m \in ErrMsgs : Reraise("UnidentifiedImageError", m)
          /\ UNCHANGED text
       \/ /\ Readable({"image"})
          /\ calls' = calls \o <<"os.path.isfile", "os.path.getsize", "Image.open",
                                 "pytesseract.image_to_string">>
          /\ \/ Extracted(file.ocr) /\ UNCHANGED caught
             \/ /\ \E m \in ErrMsgs : Catch(m)
                /\ Raise("Exception", TesseractMissingMsg)
                /\ UNCHANGED text
             \/ /\ \E m \in ErrMsgs :
                      Catch(m) /\ Raise("Exception", <<"T", "e", "s", "s", "e", "r", "a", "c", "t", " ", "O", "C", "R", " ", "f", "a", "i", "l", "e", "d", ":", " ">> \o m)
                /\ UNCHANGED text
             \/ /\ \E m \in ErrMsgs : Reraise("OSError", m)
                /\ UNCHANGED text
    /\ UNCHANGED <<json_obj, pending, fetched, entry, impl, beside, resource, file, fmt, bound, dataset, uploads, tmpfiles>>

\* ------------------------------------------------------------------------
\* The manifest branch of process_resource
\* ------------------------------------------------------------------------

\* The bytes of a file of each kind can fail to be UTF-8: a workbook of the
\* old format never is (its first bytes are none), a .doc file is not when it
\* holds a byte xFF, and an image, a pdf, a docx or an xlsx file is or is
\* not, by what it holds.
Undecodable(f) ==
    \/ f.kind \in {"xls", "image", "pdf", "docx", "xlsx"}
    \/ f.kind = "doc" /\ \E i \in 1..Len(f.bytes) : f.bytes[i] = "xFF"

\* The text open(filepath, "r", encoding="utf-8").read() gives, for a file
\* whose bytes are UTF-8: the manifest, nothing for an empty file, the text
\* of a .doc file, and text that starts as the file format demands.
Utf8Text(f) ==
    CASE f.kind = "json" -> {f.content}
      [] f.kind = "none" -> {EmptyStr}
      [] f.kind = "doc" -> IF Undecodable(f) THEN {} ELSE {f.bytes}
      [] f.kind = "pdf" -> {<<"%", "P", "D", "F", "-", "1", ".", "4", "\n">>}
      [] f.kind \in {"docx", "xlsx"} -> {<<"P", "K", "", "">>}
      [] f.kind = "image" -> {<<"G", "I", "F", "8", "9", "a", "">> \o <<"u0000">> \o <<";">>}
      [] OTHER -> {}

\* Lines 87-94 and 97-99: the manifest is read and stripped, ObjectId tokens
\* are rewritten, and the text is parsed; every exception is logged and the
\* call returns: that of read() for bytes that are not UTF-8, before
\* json.loads is called, and that of json.loads, which process_resource
\* calls itself.
ProcessJson ==
    /\ pc = "json"
    /\ \/ /\ Undecodable(file)
          /\ \E m \in ErrMsgs : Catch(m)
          /\ Return(None)
          /\ UNCHANGED <<json_obj, calls>>
       \/ \E content \in Utf8Text(file), frames \in StackFrames(1) :
             \E parsed \in {loads(ObjectIdSub(Strip(content)), frames)} :
                IF parsed # Invalid
                THEN /\ json_obj' = parsed
                     /\ Called("json.loads")
                     /\ pc' = "manifest"
                     /\ UNCHANGED <<caught, result>>
                ELSE /\ \E m \in ErrMsgs : Catch(m)
                     /\ Called("json.loads")
                     /\ Return(None)
                     /\ UNCHANGED json_obj
    /\ UNCHANGED <<pending, fetched, entry, impl, beside, resource, file, fmt, text, bound,
                   dataset, uploads, tmpfiles>>

\* ------------------------------------------------------------------------
\* upload_from_json
\* ------------------------------------------------------------------------

\* type(v).__name__ of a parsed value.
TypeName(v) ==
    CASE v.t = "obj" -> <<"d", "i", "c", "t">>
      [] v.t = "arr" -> <<"l", "i", "s", "t">>
      [] v.t = "str" -> <<"s", "t", "r">>
      [] v.t = "num" -> <<"i", "n", "t">>
      [] v.t = "float" -> <<"f", "l", "o", "a", "t">>
      [] v.t = "null" -> <<"N", "o", "n", "e", "T", "y", "p", "e">>
      [] OTHER -> <<"b", "o", "o", "l">>

\* bool(v)
Truthy(v) ==
    CASE v.t = "obj" -> v.keys # << >>
      [] v.t = "arr" -> v.items # << >>
      [] v.t = "str" -> v.s # EmptyStr
      [] v.t = "num" -> v.s # <<"0">>
      [] v.t = "float" -> v.s \notin {<<"0", ".", "0">>, <<"-", "0", ".", "0">>}
      [] v.t = "true" -> TRUE
      [] OTHER -> FALSE

RECURSIVE HexSeq(_, _)
\* '%0<width>x' % n
HexSeq(n, width) ==
    IF n < 16 /\ width <= 1 THEN <<HexDigits[n + 1]>>
    ELSE Append(HexSeq(n \div 16, width - 1), HexDigits[(n % 16) + 1])

\* What repr() writes for one character of a str inside the quote q: the
\* quote and the backslash behind a backslash, \t, \n and \r by their
\* letters, every other character that is not printable by its code point
\* in two, four or eight digits, and any other character as it is.
CharRepr(c, q) ==
    IF c = q \/ c = "\\" THEN <<"\\", c>>
    ELSE IF c = "\t" THEN <<"\\", "t">>
    ELSE IF c = "\n" THEN <<"\\", "n">>
    ELSE IF c = "\r" THEN <<"\\", "r">>
    ELSE IF ~InRanges(Cp(c), NonPrintableRanges) THEN <<c>>
    ELSE IF Cp(c) < 256 THEN <<"\\", "x">> \o HexSeq(Cp(c), 2)
    ELSE IF Cp(c) < 65536 THEN <<"\\", "u">> \o HexSeq(Cp(c), 4)
    ELSE <<"\\", "U">> \o HexSeq(Cp(c), 8)

\* repr(s) of a str: in single quotes, or in double quotes when s holds a
\* single quote and no double quote.
StrRepr(s) ==
    LET q == IF (\E i \in 1..Len(s) : s[i] = "'") /\ ~(\E i \in 1..Len(s) : s[i] = "\"")
             THEN "\"" ELSE "'"
    IN  <<q>> \o ConcatAll([i \in 1..Len(s) |-> CharRepr(s[i], q)]) \o <<q>>

RECURSIVE PyRepr(_)
\* repr(v) of a parsed value.
PyRepr(v) ==
    CASE v.t = "str" -> StrRepr(v.s)
      [] v.t \in {"num", "float"} -> v.s
      [] v.t = "true" -> <<"T", "r", "u", "e">>
      [] v.t = "false" -> <<"F", "a", "l", "s", "e">>
      [] v.t = "null" -> <<"N", "o", "n", "e">>
      [] v.t = "arr" ->
            <<"[">> \o Join([i \in 1..Len(v.items) |-> PyRepr(v.items[i])], <<",", " ">>) \o <<"]">>
      [] v.t = "obj" ->
            <<"{">> \o Join([i \in 1..Len(v.keys) |->
                              StrRepr(v.keys[i]) \o <<":", " ">> \o PyRepr(v.items[i])], <<",", " ">>)
                  \o <<"}">>

\* f"{v}": str(v), which for a str is the str itself and for any other value
\* its repr.
PyFormat(v) == IF v.t = "str" THEN v.s ELSE PyRepr(v)

\* key in d, for a dict d
HasKey(d, key) == \E i \in 1..Len(d.keys) : d.keys[i] = key

\* d.get(key, default), for a dict d
ObjGet(d, key, default) ==
    IF HasKey(d, key)
    THEN d.items[CHOOSE i \in 1..Len(d.keys) : d.keys[i] = key]
    ELSE default

\* key in v: a key of a dict, an element of a list, a substring of a str.
PyIn(key, v) ==
    CASE v.t = "obj" -> HasKey(v, key)
      [] v.t = "arr" -> \E i \in 1..Len(v.items) : v.items[i] = JStr(key)
      [] OTHER -> Contains(v.s, key)

\* What `for x in v` visits: the elements of a list, the keys of a dict, the
\* characters of a str.
Iterable(v) == v.t \in {"arr", "obj", "str"}

IterItems(v) ==
    CASE v.t = "arr" -> v.items
      [] v.t = "obj" -> [i \in 1..Len(v.keys) |-> JStr(v.keys[i])]
      [] OTHER -> [i \in 1..Len(v.s) |-> JStr(<<v.s[i]>>)]

\* The point where upload_from_json's walk of the manifest raises.
WalkRaises(msg) == [JNull EXCEPT !.t = "raise", !.s = msg]

\* AttributeError: v.get(...) on a value that is no dict.
NoGetMsg(v) == <<"'">> \o TypeName(v) \o <<"'", " ", "o", "b", "j", "e", "c", "t", " ", "h", "a", "s", " ", "n", "o", " ", "a", "t", "t", "r", "i", "b", "u", "t", "e", " ", "'", "g", "e", "t", "'">>

\* TypeError: for x in v on a value that cannot be iterated.
NotIterableMsg(v) == <<"'">> \o TypeName(v) \o <<"'", " ", "o", "b", "j", "e", "c", "t", " ", "i", "s", " ", "n", "o", "t", " ", "i", "t", "e", "r", "a", "b", "l", "e">>

\* TypeError: "releases" in v on a value that is no container.
NotContainerMsg(v) == <<"a", "r", "g", "u", "m", "e", "n", "t", " ", "o", "f", " ", "t", "y", "p", "e", " ", "'">> \o TypeName(v) \o <<"'", " ", "i", "s", " ", "n", "o", "t", " ", "i", "t", "e", "r", "a", "b", "l", "e">>

\* A mutant of UrlFound: a document's url is taken whenever the key is there.
UrlFoundAnyValue(file_url) == file_url.t # "null"

\* if file_url:
UrlFound(file_url) == Truthy(file_url)

RECURSIVE DocumentUrls(_, _)
\* Lines 20-24: the urls of the documents docs[i..], in order, up to the
\* first document that is no dict.
DocumentUrls(docs, i) ==
    IF i > Len(docs) THEN << >>
    ELSE IF docs[i].t # "obj" THEN <<WalkRaises(NoGetMsg(docs[i]))>>
    ELSE LET file_url == ObjGet(docs[i], <<"u", "r", "l">>, JNull)
         IN  (IF UrlFound(file_url) THEN <<file_url>> ELSE << >>)
                 \o DocumentUrls(docs, i + 1)

\* Line 20: release.get("tender", {}).get("documents", [])
ReleaseUrls(release) ==
    IF release.t # "obj" THEN <<WalkRaises(NoGetMsg(release))>>
    ELSE LET tender == ObjGet(release, <<"t", "e", "n", "d", "e", "r">>, JObj(<< >>, << >>))
         IN  IF tender.t # "obj" THEN <<WalkRaises(NoGetMsg(tender))>>
             ELSE LET documents == ObjGet(tender, <<"d", "o", "c", "u", "m", "e", "n", "t", "s">>, JArr(<< >>))
                  IN  IF ~Iterable(documents)
                      THEN <<WalkRaises(NotIterableMsg(documents))>>
                      ELSE DocumentUrls(IterItems(documents), 1)

RECURSIVE ReleasesUrls(_, _)
\* Line 19: for release in json_obj.get("releases", [])
ReleasesUrls(releases, i) ==
    IF i > Len(releases) THEN << >>
    ELSE ReleaseUrls(releases[i]) \o ReleasesUrls(releases, i + 1)

\* Lines 28-36: the url at links.pdf.DEU, when there is one.
DeuUrl(obj) ==
    LET links == ObjGet(obj, <<"l", "i", "n", "k", "s">>, JObj(<< >>, << >>))
    IN  IF links.t # "obj" THEN <<WalkRaises(NoGetMsg(links))>>
        ELSE LET pdf_links == ObjGet(links, <<"p", "d", "f">>, JObj(<< >>, << >>))
             IN  IF pdf_links.t # "obj" THEN <<WalkRaises(NoGetMsg(pdf_links))>>
                 ELSE LET deu_url == ObjGet(pdf_links, <<"D", "E", "U">>, JNull)
                      IN  IF Truthy(deu_url) THEN <<deu_url>> ELSE << >>

\* A mutant of IsTed: a manifest that has links is read as a links manifest.
IsTedUnlessLinks(obj) == PyIn(<<"r", "e", "l", "e", "a", "s", "e", "s">>, obj) /\ ~PyIn(<<"l", "i", "n", "k", "s">>, obj)

\* Line 18: if "releases" in json_obj
IsTed(obj) == PyIn(<<"r", "e", "l", "e", "a", "s", "e", "s">>, obj)

\* The walk stops where it raises: what follows the first raise is dropped.
UpToRaise(items) ==
    LET raises == {i \in 1..Len(items) : items[i].t = "raise"}
    IN  IF raises = {} THEN items ELSE SubSeq(items, 1, SetMin(raises))

\* Lines 16-39: the urls upload_from_json hands to upload_pdf_from_url, in
\* order, followed by the point where the walk of the manifest raises, if it
\* does.
ManifestUrls(obj) ==
    IF obj.t \in {"null", "num", "float", "true", "false"}
    THEN <<WalkRaises(NotContainerMsg(obj))>>
    ELSE IF obj.t # "obj"
    THEN <<WalkRaises(NoGetMsg(obj))>>
    ELSE IF IsTed(obj)
    THEN LET releases == ObjGet(obj, <<"r", "e", "l", "e", "a", "s", "e", "s">>, JArr(<< >>))
         IN  IF ~Iterable(releases)
             THEN <<WalkRaises(NotIterableMsg(releases))>>
             ELSE UpToRaise(ReleasesUrls(IterItems(releases), 1))
    ELSE DeuUrl(obj)

\* upload_from_json(json_obj, dataset_id) starts on the parsed manifest.
UploadFromJson ==
    /\ pc = "manifest"
    /\ Called("upload_from_json")
    /\ pending' = ManifestUrls(json_obj)
    /\ pc' = "fetch"
    /\ UNCHANGED <<json_obj, fetched, entry, impl, beside, resource, file, fmt, text, bound,
                   result, caught, dataset, uploads, tmpfiles>>

\* ------------------------------------------------------------------------
\* upload_pdf_from_url
\* ------------------------------------------------------------------------

\* What a failed call leaves in the log: nothing when it failed without an
\* exception (a response that reports no success), else the exception's str().
FailureLogs == {<< >>} \cup {<<m>> : m \in ErrMsgs}

\* The length of the longest run of characters outside excluded at s[i..].
RunLenExcept(s, i, excluded) ==
    SetMax({k \in 0..(Len(s) + 1 - i) : \A j \in i..(i + k - 1) : s[j] \notin excluded})

\* The pattern filename="?([^";]+)"? matched at position i of the header:
\* group 1, or None when the pattern does not match there.
FilenameAt(cd, i) ==
    LET key   == <<"f", "i", "l", "e", "n", "a", "m", "e", "=">>
        after == i + Len(key)
        start == IF after <= Len(cd) /\ cd[after] = "\"" THEN after + 1 ELSE after
        run   == IF start <= Len(cd) THEN RunLenExcept(cd, start, {"\"", ";"}) ELSE 0
    IN  IF after - 1 <= Len(cd) /\ SubSeq(cd, i, after - 1) = key /\ run >= 1
        THEN SubSeq(cd, start, start + run - 1)
        ELSE None

\* re.findall("filename=\"?([^\";]+)\"?", cd): the first match, or None when
\* the list is empty.
FindFilename(cd) ==
    LET at == {i \in 1..Len(cd) : FilenameAt(cd, i) # None}
    IN  IF at = {} THEN None ELSE FilenameAt(cd, SetMin(at))

\* A mutant of EnsurePdf: the suffix is compared as written.
EnsurePdfCaseSensitive(original_name) ==
    IF EndsWith(original_name, <<".", "p", "d", "f">>)
    THEN original_name
    ELSE original_name \o <<".", "p", "d", "f">>

\* Lines 34-36: if not original_name.lower().endswith(".pdf"): += ".pdf"
EnsurePdf(original_name) ==
    IF EndsWith(Lower(original_name), <<".", "p", "d", "f">>)
    THEN original_name
    ELSE original_name \o <<".", "p", "d", "f">>

\* Lines 22-36: the name of the fetched document, from the response's
\* Content-Disposition header cd (None when the header is absent) and the url.
FetchedName(file_url, cd) ==
    LET from_header   == IF Falsy(cd) THEN None ELSE FindFilename(cd)
        original_name == IF Falsy(from_header)
                         THEN PyOr(basename(SplitFirst(file_url, "?")), <<"d", "o", "c", "u", "m", "e", "n", "t", ".", "p", "d", "f">>)
                         ELSE from_header
    IN  EnsurePdf(original_name)

\* How one call of upload_pdf_from_url can end: requests.get times out or
\* fails otherwise, the status is no success, the body breaks off while it is
\* streamed to the temporary file, upload_to_ckan reports failure, or the
\* document is uploaded.
FetchOutcomes ==
    {"timeout", "connection_error", "http_error", "stream_error", "upload_failed",
     "uploaded"}

\* Where a call of upload_pdf_from_url stands that has not ended: it has the
\* response, or the whole body in its temporary file.
FetchStages == {"answered", "downloaded"}

\* Where control is while upload_from_json and upload_pdf_from_url run.
FetchPcs == {"fetch", "tempfile", "stream", "fetch_upload", "fetch_post", "remove"}

\* The bodies the servers of the documents send.
Bodies == {EmptyStr, <<"%", "P", "D", "F", "-", "1", ".", "4", "\n">>}

\* Line 50-53: what upload_pdf_from_url's handlers log for a failed fetch.
FetchLogs(file_url, outcome) ==
    CASE outcome = "timeout" -> {<<<<"T", "i", "m", "e", "o", "u", "t", " ", "w", "h", "i", "l", "e", " ", "d", "o", "w", "n", "l", "o", "a", "d", "i", "n", "g", " ", "f", "i", "l", "e", ":", " ">> \o file_url>>}
      [] outcome \in {"connection_error", "http_error", "stream_error"} ->
            {<<<<"E", "r", "r", "o", "r", " ", "d", "o", "w", "n", "l", "o", "a", "d", "i", "n", "g", "/", "u", "p", "l", "o", "a", "d", "i", "n", "g", " ", "f", "i", "l", "e", " ">> \o file_url \o <<":", " ">> \o m>> :
                m \in ErrMsgs}
      [] outcome = "upload_failed" -> FailureLogs
      [] OTHER -> {<< >>}

\* A mutant of AfterUrl: a failed url ends the walk.
AfterUrlStopOnFailure(outcome, rest) ==
    IF outcome = "answered" THEN rest ELSE << >>

\* upload_pdf_from_url returns normally whatever happened, and the loops of
\* upload_from_json go on with the urls that are left.
AfterUrl(outcome, rest) == rest

\* The call of upload_pdf_from_url that runs, and the calls made in this
\* call with the running one replaced by f.
Fetching == fetched[Len(fetched)]

FetchedWith(f) == [fetched EXCEPT ![Len(fetched)] = f]

\* Lines 17-36 of upload_pdf_from_url, called on the next url: the document
\* is requested and named. A timeout, a failure of the connection and a
\* status that is no success are logged and the call returns. A url that is
\* no str makes requests.get raise; the logs show it as str() does.
FetchUrl ==
    /\ pc = "fetch"
    /\ pending # << >>
    /\ Head(pending).t # "raise"
    /\ LET file_url == PyFormat(Head(pending))
       IN  \E outcome \in {"timeout", "connection_error", "http_error", "answered"},
              cd \in ResponseHeaders(file_url) :
                 /\ Head(pending).t # "str" => outcome = "connection_error"
                 /\ outcome # "answered" => cd = None
                 /\ fetched' = Append(fetched,
                                 [url |-> file_url,
                                  name |-> IF outcome = "answered"
                                           THEN FetchedName(file_url, cd) ELSE None,
                                  body |-> None, cd |-> cd, outcome |-> outcome,
                                  tmp |-> None, removed |-> 0])
                 /\ calls' = calls \o <<"upload_pdf_from_url", "requests.get">>
                 /\ \E logs \in FetchLogs(file_url, outcome) : caught' = caught \o logs
                 /\ pc' = IF outcome = "answered" THEN "tempfile" ELSE "fetch"
                 /\ pending' = AfterUrl(outcome, Tail(pending))
    /\ UNCHANGED <<json_obj, entry, impl, beside, resource, file, fmt, text, bound, result,
                   dataset, uploads, tmpfiles>>

\* Line 38: a new temporary file is made, empty, before the first chunk of
\* the body is waited for.
FetchTempFile ==
    /\ pc = "tempfile"
    /\ tmpfiles' = tmpfiles \cup {NewTmpPath(tmpfiles)}
    /\ fetched' = FetchedWith([Fetching EXCEPT !.tmp = NewTmpPath(tmpfiles)])
    /\ pc' = "stream"
    /\ UNCHANGED <<json_obj, pending, entry, impl, beside, resource, file, fmt, text, bound,
                   result, calls, caught, dataset, uploads>>

\* Lines 39-41: the body is streamed into the temporary file. When the body
\* breaks off, the handler logs it and the call returns; the file stays.
FetchStream ==
    /\ pc = "stream"
    /\ \/ /\ \E body \in Bodies :
                fetched' = FetchedWith([Fetching EXCEPT !.outcome = "downloaded",
                                                        !.body = body])
          /\ pc' = "fetch_upload"
          /\ UNCHANGED caught
       \/ /\ fetched' = FetchedWith([Fetching EXCEPT !.outcome = "stream_error"])
          /\ \E logs \in FetchLogs(Fetching.url, "stream_error") : caught' = caught \o logs
          /\ pc' = "fetch"
    /\ UNCHANGED <<json_obj, pending, entry, impl, beside, resource, file, fmt, text, bound,
                   result, calls, dataset, uploads, tmpfiles>>

\* Lines 43-44, and upload_to_ckan up to its request: upload_to_ckan is
\* called on the temporary file, opens it and posts it. When it cannot open
\* the file, it logs that and returns None, which the caller does not look
\* at.
FetchUpload ==
    /\ pc = "fetch_upload"
    /\ Called("upload_to_ckan")
    /\ \/ /\ pc' = "fetch_post"
          /\ UNCHANGED <<fetched, caught>>
       \/ /\ \E logs \in FailureLogs \ {<< >>} : caught' = caught \o logs
          /\ fetched' = FetchedWith([Fetching EXCEPT !.outcome = "upload_failed"])
          /\ pc' = "remove"
    /\ UNCHANGED <<json_obj, pending, entry, impl, beside, resource, file, fmt, text, bound,
                   result, dataset, uploads, tmpfiles>>

\* upload_to_ckan from its request on: CKAN has made a resource of the body
\* in the temporary file, under the document's name, and says so, or
\* upload_to_ckan returns None.
FetchPost ==
    /\ pc = "fetch_post"
    /\ \/ /\ uploads' = Append(uploads, [name |-> Fetching.name, content |-> Fetching.body])
          /\ dataset' = [dataset EXCEPT !.resources = @ \cup {Fetching.name}]
          /\ fetched' = FetchedWith([Fetching EXCEPT !.outcome = "uploaded"])
          /\ UNCHANGED caught
       \/ /\ \E logs \in FetchLogs(Fetching.url, "upload_failed") : caught' = caught \o logs
          /\ fetched' = FetchedWith([Fetching EXCEPT !.outcome = "upload_failed"])
          /\ UNCHANGED <<dataset, uploads>>
    /\ pc' = "remove"
    /\ UNCHANGED <<json_obj, pending, entry, impl, beside, resource, file, fmt, text, bound,
                   result, calls, tmpfiles>>

\* Lines 46-48: the temporary file is removed after upload_to_ckan has
\* returned, and upload_pdf_from_url returns.
FetchRemove ==
    /\ pc = "remove"
    /\ Called("os.remove")
    /\ tmpfiles' = tmpfiles \ {Fetching.tmp}
    /\ fetched' = FetchedWith([Fetching EXCEPT !.removed = 1])
    /\ pc' = "fetch"
    /\ UNCHANGED <<json_obj, pending, entry, impl, beside, resource, file, fmt, text, bound,
                   result, caught, dataset, uploads>>

\* upload_pdf_from_url, step by step.
FetchSteps ==
    \/ FetchUrl
    \/ FetchTempFile
    \/ FetchStream
    \/ FetchUpload
    \/ FetchPost
    \/ FetchRemove

\* No url is left: upload_from_json returns, after its handler has logged the
\* exception with which the walk of the manifest ended, if it did, and
\* process_resource returns.
UploadFromJsonEnd ==
    /\ pc = "fetch"
    /\ IF pending = << >> THEN TRUE ELSE Head(pending).t = "raise"
    /\ IF pending # << >> THEN Catch(Head(pending).s) ELSE UNCHANGED caught
    /\ pending' = << >>
    /\ Return(None)
    /\ UNCHANGED <<json_obj, fetched, entry, impl, beside, resource, file, fmt, text, bound,
                   calls, dataset, uploads, tmpfiles>>

\* ------------------------------------------------------------------------
\* store_text_in_json, store_text_as_txt, upload_to_ckan
\* ------------------------------------------------------------------------

\* datetime.utcnow().isoformat(): the clock at the moment of the call, which
\* differs from one call to the next; the microseconds are left out when
\* they are zero.
Instants == {<<"2", "0", "2", "5", "-", "0", "1", "-", "0", "1", "T", "0", "0", ":", "0", "0", ":", "0", "0", ".", "7", "9", "0", "1", "7", "8">>, <<"2", "0", "2", "5", "-", "0", "1", "-", "0", "1", "T", "0", "0", ":", "0", "0", ":", "0", "1">>}

\* json.dumps({'text_length': str(len(text)), 'extraction_date': now})
TextData(t, now) ==
    <<"{", "\"", "t", "e", "x", "t", "_", "l", "e", "n", "g", "t", "h", "\"", ":", " ", "\"">> \o IntToStr(Len(t)) \o <<"\"", ",", " ", "\"", "e", "x", "t", "r", "a", "c", "t", "i", "o", "n", "_", "d", "a", "t", "e", "\"", ":", " ", "\"">>
        \o now \o <<"\"", "}">>

\* original_name = os.path.basename(url.split("?")[0])
OriginalName(res) == basename(SplitFirst(UrlOrName(res), "?"))

\* A mutant of TxtFilename: the artifact keeps the name of the document it
\* was extracted from.
TxtFilenameOfDocument(res) == OriginalName(res)

\* filename = os.path.splitext(original_name)[0] + ".txt"
TxtFilename(res) == splitext(OriginalName(res))[1] \o <<".", "t", "x", "t">>

\* file_path = f"/tmp/{filename}"
TxtPath(res) == <<"/", "t", "m", "p", "/">> \o TxtFilename(res)

\* A mutant of Merged: the extras are built anew, with the metadata key only.
MergedAnew(record, t, now) ==
    [record EXCEPT !.extras = ("extracted_text_data" :> TextData(t, now))]

\* Lines 31-37 and 50-59 of store_text_in_json: the record package_show
\* gave, with the metadata key set in its extras.
Merged(record, t, now) ==
    [record EXCEPT !.extras = ("extracted_text_data" :> TextData(t, now)) @@ @]

\* Where control is while store_text_in_json runs.
StorePcs ==
    {"store", "package_show", "store_text_as_txt", "store_upload", "store_post",
     "package_update"}

\* Lines 106-109 of process_resource and lines 14-25 of store_text_in_json:
\* store_text_in_json is called and looks the resource up. When
\* resource_show raises, the handler logs that and raises it again.
Store ==
    /\ pc = "store"
    /\ calls' = calls \o <<"store_text_in_json", "resource_show">>
    /\ \/ \E m \in ErrMsgs : Reraise("Exception", m)
       \/ pc' = "package_show" /\ UNCHANGED <<result, caught>>
    /\ UNCHANGED <<json_obj, pending, fetched, entry, impl, beside, resource, file, fmt, text,
                   bound, dataset, uploads, tmpfiles>>

\* Lines 27-41: package_show gives the record as it is now, which the call
\* keeps; with no text the artifact is skipped. When package_show raises,
\* the handler logs that and raises it again.
PackageShow ==
    /\ pc = "package_show"
    /\ Called("package_show")
    /\ \/ /\ \E m \in ErrMsgs : Reraise("Exception", m)
          /\ UNCHANGED snapshot
       \/ /\ snapshot' = dataset
          /\ pc' = IF text = EmptyStr THEN "package_update" ELSE "store_text_as_txt"
          /\ UNCHANGED <<result, caught>>
    /\ UNCHANGED <<json_obj, pending, fetched, entry, impl, response, prev, jobs, tmpdata,
                   chain, resource, file, fmt, text, bound, dataset, uploads, tmpfiles>>

\* Lines 42-44 and store_text_as_txt: the text is written to /tmp/<filename>.
\* store_text_as_txt catches what open and write raise, logs it and returns
\* None, and the caller goes on without the artifact. A failure of open
\* leaves nothing; a failure of write (text that utf-8 cannot encode, a full
\* disk) leaves the file that was opened.
StoreTextAsTxt ==
    /\ pc = "store_text_as_txt"
    /\ Called("store_text_as_txt")
    /\ \/ /\ tmpfiles' = tmpfiles \cup {TxtPath(resource)}
          /\ pc' = "store_upload"
          /\ UNCHANGED caught
       \/ /\ \E opened \in BOOLEAN :
                tmpfiles' = IF opened THEN tmpfiles \cup {TxtPath(resource)} ELSE tmpfiles
          /\ \E logs \in FailureLogs \ {<< >>} : caught' = caught \o logs
          /\ pc' = "package_update"
    /\ UNCHANGED <<json_obj, pending, fetched, entry, impl, beside, resource, file, fmt, text,
                   bound, result, dataset, uploads>>

\* Line 45, and upload_to_ckan up to its request: upload_to_ckan is called
\* on the file, opens it and posts it. When it cannot open the file, it logs
\* that and returns None.
StoreUpload ==
    /\ pc = "store_upload"
    /\ Called("upload_to_ckan")
    /\ \/ /\ pc' = "store_post"
          /\ UNCHANGED caught
       \/ /\ \E logs \in FailureLogs \ {<< >>} : caught' = caught \o logs
          /\ pc' = "package_update"
    /\ UNCHANGED <<json_obj, pending, fetched, entry, impl, beside, resource, file, fmt, text,
                   bound, result, dataset, uploads, tmpfiles>>

\* upload_to_ckan from its request on, and lines 46-47: CKAN has made a
\* resource of the file, under its name, and says so, or upload_to_ckan
\* returns None, which the caller skips over.
StorePost ==
    /\ pc = "store_post"
    /\ \/ /\ uploads' = Append(uploads, [name |-> TxtFilename(resource), content |-> text])
          /\ dataset' = [dataset EXCEPT !.resources = @ \cup {TxtFilename(resource)}]
          /\ UNCHANGED caught
       \/ /\ \E logs \in FailureLogs : caught' = caught \o logs
          /\ UNCHANGED <<dataset, uploads>>
    /\ pc' = "package_update"
    /\ UNCHANGED <<json_obj, pending, fetched, entry, impl, beside, resource, file, fmt, text,
                   bound, result, calls, tmpfiles>>

\* Lines 49-66: the metadata key is merged into the extras of the record
\* package_show gave, and that record is written back. When package_update
\* raises, the handler logs that and raises it again.
PackageUpdate ==
    /\ pc = "package_update"
    /\ Called("package_update")
    /\ \/ /\ \E now \in Instants : dataset' = Merged(snapshot, text, now)
          /\ Return(None)
          /\ UNCHANGED caught
       \/ /\ \E m \in ErrMsgs : Reraise("Exception", m)
          /\ UNCHANGED dataset
    /\ snapshot' = None
    /\ UNCHANGED <<json_obj, pending, fetched, entry, impl, response, prev, jobs, tmpdata,
                   chain, resource, file, fmt, text, bound, uploads, tmpfiles>>

\* store_text_in_json, step by step.
StoreSteps ==
    \/ Store
    \/ PackageShow
    \/ StoreTextAsTxt
    \/ StoreUpload
    \/ StorePost
    \/ PackageUpdate

\* ------------------------------------------------------------------------
\* The entry points of the plugin
\* ------------------------------------------------------------------------

\* The message of the action's success value.
SuccessMessage(resource_id) ==
    <<"T", "e", "x", "t", " ", "e", "x", "t", "r", "a", "c", "t", "i", "o", "n", " ", "c", "o", "m", "p", "l", "e", "t", "e", "d", " ", "f", "o", "r", " ", "r", "e", "s", "o", "u", "r", "c", "e", " ">> \o resource_id \o <<".">>

\* docuvision_process_document, up to the call of _process_resource: the
\* resource_id is required and the resource is looked up.
ActionLookup ==
    /\ pc = "lookup"
    /\ IF Falsy(resource.id)
       THEN /\ pc' = "done"
            /\ result' = Raised("ValidationError", <<"M", "i", "s", "s", "i", "n", "g", " ", "'", "r", "e", "s", "o", "u", "r", "c", "e", "_", "i", "d", "'", " ", "i", "n", " ", "r", "e", "q", "u", "e", "s", "t", " ", "d", "a", "t", "a", ".">>)
            /\ UNCHANGED calls
       ELSE /\ Called("resource_show")
            /\ \/ /\ pc' = "done"
                  /\ result' = Raised("ObjectNotFound",
                                      <<"R", "e", "s", "o", "u", "r", "c", "e", " ", "w", "i", "t", "h", " ", "i", "d", " ", "'">> \o resource.id \o <<"'", " ", "n", "o", "t", " ", "f", "o", "u", "n", "d", ".">>)
               \/ /\ pc' = "done"
                  /\ \E m \in ErrMsgs :
                        result' = Raised("ValidationError", <<"E", "r", "r", "o", "r", " ", "f", "e", "t", "c", "h", "i", "n", "g", " ", "r", "e", "s", "o", "u", "r", "c", "e", ":", " ">> \o m)
               \/ /\ pc' = "resolve"
                  /\ UNCHANGED result
    /\ UNCHANGED <<json_obj, pending, fetched, entry, impl, beside, resource, file, fmt, text,
                   bound, caught, dataset, uploads, tmpfiles>>

\* docuvision_process_document, after _process_resource: a return becomes
\* the success value, an exception becomes a ValidationError that carries its
\* str().
ActionEnd ==
    /\ pc = "caller"
    /\ entry = "docuvision_process_document"
    /\ pc' = "done"
    /\ result' = IF result.kind = "raised"
                 THEN Raised("ValidationError", <<"E", "r", "r", "o", "r", " ", "p", "r", "o", "c", "e", "s", "s", "i", "n", "g", " ", "d", "o", "c", "u", "m", "e", "n", "t", ":", " ">> \o result.msg)
                 ELSE Returned(SuccessMessage(resource.id))
    /\ UNCHANGED <<json_obj, pending, fetched, entry, impl, beside, resource, file, fmt, text,
                   bound, calls, caught, dataset, uploads, tmpfiles>>

\* after_resource_create and after_resource_update, after _process_resource:
\* the hook has no handler and returns nothing, so what _process_resource
\* raised or returned is what CKAN gets.
HookEnd ==
    /\ pc = "caller"
    /\ entry \in {"after_resource_create", "after_resource_update"}
    /\ pc' = "done"
    /\ UNCHANGED <<json_obj, pending, fetched, entry, impl, beside, resource, file, fmt, text,
                   bound, result, calls, caught, dataset, uploads, tmpfiles>>

\* ------------------------------------------------------------------------
\* Specifications
\* ------------------------------------------------------------------------

ExtractorSteps ==
    \/ ExtractPdf
    \/ Tesseract
    \/ ExtractDoc
    \/ Antiword
    \/ XlsxPrimary
    \/ XlsxFallback
    \/ ExtractImage

\* process_resource, called again and again on one dataset.
Next ==
    \/ CallProcess
    \/ Resolve
    \/ CheckFile
    \/ Dispatch
    \/ ExtractDocx
    \/ ExtractorSteps
    \/ ProcessJson
    \/ UploadFromJson
    \/ FetchSteps
    \/ UploadFromJsonEnd
    \/ StoreSteps
    \/ Finish

Spec == Init /\ [][Next]_vars

\* The plugin in CKAN: its hooks and its action, called again and again on
\* one dataset.
InitPlugin == Init /\ impl = "plugin"

NextPlugin ==
    \/ CallHook
    \/ CallAction
    \/ ActionLookup
    \/ Resolve
    \/ CheckFile
    \/ Dispatch
    \/ ExtractDocx
    \/ ExtractorSteps
    \/ ProcessJson
    \/ UploadFromJson
    \/ FetchSteps
    \/ UploadFromJsonEnd
    \/ StoreSteps
    \/ ActionEnd
    \/ HookEnd
    \/ Finish

SpecPlugin == InitPlugin /\ [][NextPlugin]_vars

\* process_resource, called on the manifests of ManifestTexts, each on a
\* fresh dataset.
NextManifest ==
    \/ CallManifest
    \/ Resolve
    \/ CheckFile
    \/ Dispatch
    \/ ProcessJson
    \/ UploadFromJson
    \/ FetchSteps
    \/ UploadFromJsonEnd
    \/ FinishFresh

SpecManifest == Init /\ [][NextManifest]_vars

\* upload_pdf_from_url, called directly on a url, each call on a fresh
\* dataset.
NextFetch ==
    \/ CallFetch
    \/ FetchSteps
    \/ UploadFromJsonEnd
    \/ FinishFresh

SpecFetch == Init /\ [][NextFetch]_vars

\* The extractors, called directly on a file path.
NextExtract ==
    \/ CallExtractor
    \/ ExtractorSteps
    \/ Finish

SpecExtract == Init /\ [][NextExtract]_vars

\* The declared formats and the urls format resolution is checked on.
DeclaredFormats ==
    {None, EmptyStr, <<"p", "d", "f">>, <<"P", "D", "F">>, <<" ", "p", "d", "f", " ">>, <<"d", "a", "t", "a">>, <<"j", "p", "g">>, <<"J", "P", "E", "G">>, <<"t", "i", "f">>,
     <<"d", "o", "c", "x">>, <<"d", "o", "c">>, <<"x", "l", "s">>, <<"x", "l", "s", "x">>, <<"j", "s", "o", "n">>, <<"p", "n", "g">>, <<"t", "x", "t">>, <<"P", "d", "f", "\n">>,
     <<"a", "p", "p", "l", "i", "c", "a", "t", "i", "o", "n", "/", "p", "d", "f">>, <<"P", "D", "F", " ">>, <<"", "d", "o", "c", "">>,
     <<CharOf(8195)>> \o <<"P", "d", "f">> \o <<CharOf(12288)>>}

Urls ==
    {<<"r", "e", "p", "o", "r", "t">>, <<"r", "e", "p", "o", "r", "t", ".", "p", "d", "f">>, <<"r", "e", "p", "o", "r", "t", ".", "P", "D", "F">>, <<"r", ".", "j", "p", "g">>, <<"r", ".", "j", "p", "e", "g">>, <<"r", ".", "t", "i", "f">>,
     <<"r", ".", "t", "i", "f", "f">>, <<"r", ".", "d", "o", "c", "x">>, <<"r", ".", "d", "o", "c">>, <<"r", ".", "x", "l", "s">>, <<"r", ".", "x", "l", "s", "x">>, <<"r", ".", "j", "s", "o", "n">>, <<"r", ".", "p", "n", "g">>,
     <<"r", ".", "g", "i", "f">>, <<"r", ".", "b", "m", "p">>, <<"r", ".", "t", "x", "t">>, <<"r", ".", "c", "s", "v">>, <<".", "p", "d", "f">>, <<"a", ".", "b", "/", "c">>, <<"a", "/", ".", "p", "d", "f">>,
     <<"r", ".", "p", "d", "f", "?", "x", "=", "1">>, <<"r", ".">>, <<"x", ".", ".", "p", "d", "f">>, <<"h", ":", "/", "/", "h", ".", "d", "e", "/", "d", "/", "r", ".", "P", "d", "f">>, <<"r", ".", "p", "d", "f", " ">>, <<"a", ".", "p", "d", "f", "/", "r", ".", "d", "o", "c">>,
     <<"r", ".", "t", "a", "r", ".", "g", "z">>, <<"r", ".">> \o <<CharOf(304)>>}

ResolveInputs ==
    {Resource(f, u, EmptyStr) : f \in DeclaredFormats, u \in Urls}
        \cup {Resource(f, EmptyStr, n) : f \in DeclaredFormats,
                                         n \in {None, EmptyStr, <<"n", ".", "p", "d", "f">>, <<"n">>}}

\* Format resolution alone: process_resource up to the resolved format, on
\* every input of ResolveInputs.
InitResolve ==
    /\ pc = "resolve"
    /\ entry = "process_resource"
    /\ impl \in Impls
    /\ resource \in ResolveInputs
    /\ file = MissingFile
    /\ fmt = None
    /\ text = EmptyStr
    /\ bound = NoBound
    /\ result = NoResult
    /\ calls = << >>
    /\ caught = << >>
    /\ dataset = InitialDataset
    /\ uploads = << >>
    /\ tmpfiles = {}
    /\ json_obj = JNull
    /\ pending = << >>
    /\ fetched = << >>
    /\ InitBeside

SpecResolve == InitResolve /\ [][Resolve]_vars


\* ------------------------------------------------------------------------
\* upload_to_ckan, called directly
\* ------------------------------------------------------------------------

\* The bodies CKAN, or what stands before it, answers a resource_create
\* request with.
UploadBodies ==
    {<<"{", "\"", "s", "u", "c", "c", "e", "s", "s", "\"", ":", " ", "t", "r", "u", "e", ",", " ", "\"", "r", "e", "s", "u", "l", "t", "\"", ":", " ", "{", "\"", "i", "d", "\"", ":", " ", "\"", "r", "2", "\"", "}", "}">>,
     <<"{", "\"", "s", "u", "c", "c", "e", "s", "s", "\"", ":", " ", "f", "a", "l", "s", "e", ",", " ", "\"", "e", "r", "r", "o", "r", "\"", ":", " ", "{", "\"", "m", "e", "s", "s", "a", "g", "e", "\"", ":", " ", "\"", "x", "\"", "}", "}">>,
     <<"{", "\"", "s", "u", "c", "c", "e", "s", "s", "\"", ":", " ", "t", "r", "u", "e", "}">>,
     <<"{", "\"", "s", "u", "c", "c", "e", "s", "s", "\"", ":", " ", "t", "r", "u", "e", ",", " ", "\"", "r", "e", "s", "u", "l", "t", "\"", ":", " ", "n", "u", "l", "l", "}">>,
     <<"{", "\"", "s", "u", "c", "c", "e", "s", "s", "\"", ":", " ", "t", "r", "u", "e", ",", " ", "\"", "r", "e", "s", "u", "l", "t", "\"", ":", " ", "\"", "r", "2", "\"", "}">>,
     <<"{", "\"", "s", "u", "c", "c", "e", "s", "s", "\"", ":", " ", "t", "r", "u", "e", ",", " ", "\"", "r", "e", "s", "u", "l", "t", "\"", ":", " ", "{", "\"", "n", "a", "m", "e", "\"", ":", " ", "\"", "a", "\"", "}", "}">>,
     <<"{", "\"", "s", "u", "c", "c", "e", "s", "s", "\"", ":", " ", "\"", "n", "o", "\"", ",", " ", "\"", "r", "e", "s", "u", "l", "t", "\"", ":", " ", "{", "\"", "i", "d", "\"", ":", " ", "\"", "r", "2", "\"", "}", "}">>,
     <<"{", "\"", "s", "u", "c", "c", "e", "s", "s", "\"", ":", " ", "0", ",", " ", "\"", "r", "e", "s", "u", "l", "t", "\"", ":", " ", "{", "\"", "i", "d", "\"", ":", " ", "\"", "r", "2", "\"", "}", "}">>,
     <<"{", "\"", "s", "u", "c", "c", "e", "s", "s", "\"", ":", " ", "n", "u", "l", "l", ",", " ", "\"", "r", "e", "s", "u", "l", "t", "\"", ":", " ", "{", "\"", "i", "d", "\"", ":", " ", "\"", "r", "2", "\"", "}", "}">>,
     <<"{", "\"", "r", "e", "s", "u", "l", "t", "\"", ":", " ", "{", "\"", "i", "d", "\"", ":", " ", "\"", "r", "2", "\"", "}", "}">>,
     <<"[", "t", "r", "u", "e", "]">>,
     <<"\"", "o", "k", "\"">>,
     <<"<", "h", "t", "m", "l", ">", "B", "a", "d", " ", "G", "a", "t", "e", "w", "a", "y", "<", "/", "h", "t", "m", "l", ">">>,
     EmptyStr}

\* The status codes of the answers.
UploadStatuses == {200, 201, 403, 404, 409, 500, 502}

\* requests.post answered with a status and a body.
Response(status, body) == [kind |-> "response", body |-> body, status |-> status]

\* What requests.post can give: requests.exceptions.Timeout, another
\* RequestException, or an answer.
Responses ==
    {[NoResponse EXCEPT !.kind = "timeout"], [NoResponse EXCEPT !.kind = "error"]}
        \cup {Response(status, body) : status \in UploadStatuses, body \in UploadBodies}

\* The files upload_to_ckan is called with: the text artifact, or a path at
\* which no file is.
UploadFiles == {MissingFile, DocFile(<<"h", "i">>)}

\* The path upload_to_ckan is called with, no original_name given.
UploadPath == <<"/", "t", "m", "p", "/", "a", ".", "t", "x", "t">>

\* upload_to_ckan: resource_name = original_name or os.path.basename(file_path)
UploadName(file_path, original_name) == PyOr(original_name, basename(file_path))

\* A Python value read from JSON, as the caller of upload_to_ckan gets it.
PyValue(v) ==
    CASE v.t = "null" -> None
      [] v.t = "str" -> v.s
      [] OTHER -> v

\* v[key] gives a value: v is a dict that has the key. Otherwise the
\* subscript raises KeyError or TypeError.
HasItem(v, key) == v.t = "obj" /\ HasKey(v, key)

\* result["result"]["id"] for the parsed answer of the response r, or None
\* when there was no response, result.get("success") is not truthy or a
\* subscript raised.
AnswerId(r, answer) ==
    IF /\ r.kind = "response"
       /\ answer.t = "obj"
       /\ Truthy(ObjGet(answer, <<"s", "u", "c", "c", "e", "s", "s">>, JNull))
       /\ HasItem(answer, <<"r", "e", "s", "u", "l", "t">>)
       /\ HasItem(ObjGet(answer, <<"r", "e", "s", "u", "l", "t">>, JNull), <<"i", "d">>)
    THEN PyValue(ObjGet(ObjGet(answer, <<"r", "e", "s", "u", "l", "t">>, JNull), <<"i", "d">>, JNull))
    ELSE None

\* A mutant of UploadId: an id is returned for a 2xx answer only.
UploadIdChecksStatus(r, frames) ==
    IF r.kind = "response" /\ r.status \in 200..299
    THEN AnswerId(r, loads(r.body, frames))
    ELSE None

\* Lines 91-108 of upload_to_ckan: result = response.json(), then
\* result["result"]["id"] if result.get("success") is truthy, else None; None
\* as well when requests.post, response.json(), result.get or a subscript
\* raised. The status code is logged and not looked at. frames are the
\* frames on the stack where response.json() calls json.loads.
UploadId(r, frames) == AnswerId(r, loads(r.body, frames))

\* What the handlers log for the parsed answer of the response r.
AnswerLogs(r, answer) ==
    CASE r.kind = "timeout" -> {<<<<"R", "e", "q", "u", "e", "s", "t", " ", "t", "o", " ", "C", "K", "A", "N", " ", "t", "i", "m", "e", "d", " ", "o", "u", "t", ".">>>>}
      [] r.kind = "error" -> {<<<<"R", "e", "q", "u", "e", "s", "t", " ", "f", "a", "i", "l", "e", "d", ":", " ">> \o m>> : m \in ErrMsgs}
      [] answer.t = "invalid" ->
            {<<prefix \o m>> : prefix \in {<<"R", "e", "q", "u", "e", "s", "t", " ", "f", "a", "i", "l", "e", "d", ":", " ">>, <<"E", "r", "r", "o", "r", " ", "u", "p", "l", "o", "a", "d", "i", "n", "g", " ", "t", "o", " ", "C", "K", "A", "N", ":", " ">>},
                               m \in ErrMsgs}
      [] answer.t # "obj" -> {<<<<"E", "r", "r", "o", "r", " ", "u", "p", "l", "o", "a", "d", "i", "n", "g", " ", "t", "o", " ", "C", "K", "A", "N", ":", " ">> \o NoGetMsg(answer)>>}
      [] ~Truthy(ObjGet(answer, <<"s", "u", "c", "c", "e", "s", "s">>, JNull)) ->
            {<<<<"F", "a", "i", "l", "e", "d", " ", "t", "o", " ", "u", "p", "l", "o", "a", "d", " ">> \o m>> : m \in ErrMsgs}
      [] ~HasItem(answer, <<"r", "e", "s", "u", "l", "t">>) -> {<<<<"E", "r", "r", "o", "r", " ", "u", "p", "l", "o", "a", "d", "i", "n", "g", " ", "t", "o", " ", "C", "K", "A", "N", ":", " ", "'", "r", "e", "s", "u", "l", "t", "'">>>>}
      [] ~HasItem(ObjGet(answer, <<"r", "e", "s", "u", "l", "t">>, JNull), <<"i", "d">>) ->
            IF ObjGet(answer, <<"r", "e", "s", "u", "l", "t">>, JNull).t = "obj"
            THEN {<<<<"E", "r", "r", "o", "r", " ", "u", "p", "l", "o", "a", "d", "i", "n", "g", " ", "t", "o", " ", "C", "K", "A", "N", ":", " ", "'", "i", "d", "'">>>>}
            ELSE {<<<<"E", "r", "r", "o", "r", " ", "u", "p", "l", "o", "a", "d", "i", "n", "g", " ", "t", "o", " ", "C", "K", "A", "N", ":", " ">> \o m>> : m \in ErrMsgs}
      [] OTHER -> {<< >>}

\* What the handlers of lines 100-108 and the else branch of line 96 log.
UploadLogs(r, frames) == AnswerLogs(r, loads(r.body, frames))

\* A caller calls upload_to_ckan(file_path, dataset_id), as store_text_in_json
\* does.
CallUpload ==
    /\ pc = "idle"
    /\ pc' = "upload"
    /\ entry' = "upload_to_ckan"
    /\ file' \in UploadFiles
    /\ UNCHANGED <<impl, beside, resource, fmt, text, bound, result, calls, caught,
                   dataset, uploads, tmpfiles, json_obj, pending, fetched>>

\* Lines 60-86 of upload_to_ckan: the file is opened and posted. open raises
\* when no file is at the path, which the last handler logs.
UploadPost ==
    /\ pc = "upload"
    /\ IF ~file.exists
       THEN /\ Called("open")
            /\ \E m \in ErrMsgs : Catch(<<"E", "r", "r", "o", "r", " ", "u", "p", "l", "o", "a", "d", "i", "n", "g", " ", "t", "o", " ", "C", "K", "A", "N", ":", " ">> \o m)
            /\ Return(None)
            /\ UNCHANGED response
       ELSE /\ calls' = calls \o <<"open", "requests.post">>
            /\ \E r \in Responses :
                  /\ response' = r
                  /\ IF r.kind = "response"
                     THEN pc' = "answer" /\ UNCHANGED <<caught, result>>
                     ELSE /\ \E logs \in AnswerLogs(r, Invalid) : caught' = caught \o logs
                          /\ Return(None)
    /\ UNCHANGED <<snapshot, impl, chain, prev, jobs, tmpdata, entry, resource, file, fmt, text, bound, dataset, uploads,
                   tmpfiles, json_obj, pending, fetched>>

\* Lines 88-98 of upload_to_ckan: the answer is logged, parsed and read. An
\* answer that carries an id is CKAN's word that resource_create has made
\* the resource, named resource_name, of the file posted.
UploadAnswer ==
    /\ pc = "answer"
    /\ Called("response.json")
    /\ \E frames \in StackFrames(2) :
          \E id \in {UploadId(response, frames)} :
             /\ \E logs \in UploadLogs(response, frames) : caught' = caught \o logs
             /\ Return(id)
             /\ IF id # None
                THEN /\ uploads' = Append(uploads, [name |-> UploadName(UploadPath, None),
                                                    content |-> file.bytes])
                     /\ dataset' = [dataset EXCEPT
                                       !.resources = @ \cup {UploadName(UploadPath, None)}]
                ELSE UNCHANGED <<dataset, uploads>>
    /\ UNCHANGED <<impl, beside, entry, resource, file, fmt, text, bound,
                   tmpfiles, json_obj, pending, fetched>>

\* The caller takes what upload_to_ckan returned.
UploadEnd ==
    /\ pc = "done"
    /\ response' = NoResponse
    /\ EndOfCall
    /\ dataset' = InitialDataset
    /\ tmpfiles' = {}
    /\ UNCHANGED <<snapshot, impl, chain, prev, jobs, tmpdata>>

NextUpload ==
    \/ CallUpload
    \/ UploadPost
    \/ UploadAnswer
    \/ UploadEnd

\* upload_to_ckan, called directly on every answer of Responses.
SpecUpload == Init /\ [][NextUpload]_vars

\* ------------------------------------------------------------------------
\* Progress
\* ------------------------------------------------------------------------

\* The steps of a call that return in bounded time: computation in the
\* process, the calls of CKAN's own actions, and the HTTP requests, which are
\* made with timeout=100 (requests.post). textract.process and the readers
\* of the libraries are taken to return.
BoundedSteps ==
    \/ Resolve
    \/ CheckFile
    \/ Dispatch
    \/ ExtractPdf
    \/ ExtractDocx
    \/ ExtractDoc
    \/ XlsxPrimary
    \/ XlsxFallback
    \/ StoreSteps

\* The steps that wait for a collaborator with no timeout:
\* subprocess.check_output(["antiword", filepath]) (extract_text_doc),
\* convert_from_path and pytesseract.image_to_string (extract_text_tesseract,
\* extract_text_image). Nothing makes them return.
UnboundedSteps ==
    \/ Tesseract
    \/ Antiword
    \/ ExtractImage

\* A caller calls process_resource on a resource of one of the extraction
\* branches of the dispatch. (The manifest branch makes HTTP requests only,
\* with timeout=30 and timeout=100.)
CallProcessBranch ==
    \E r \in {p \in PluginResources : p.format # <<"j", "s", "o", "n">>} :
        \E f \in ProcessFiles(r) :
            BeginCall("process_resource", r, f, "resolve")

NextLive ==
    \/ CallProcessBranch
    \/ BoundedSteps
    \/ UnboundedSteps
    \/ FinishFresh

\* process_resource, each call on a fresh dataset, under a scheduler that
\* runs every step that can return.
SpecLive == Init /\ [][NextLive]_vars /\ WF_vars(BoundedSteps)

\* The same with collaborators that always answer.
SpecLiveAnswered == SpecLive /\ WF_vars(UnboundedSteps)

\* ------------------------------------------------------------------------
\* Two calls on the same resource and file
\* ------------------------------------------------------------------------

\* The strategies a call attempted, in order.
Strategies(cs) ==
    SelectSeq(cs, LAMBDA c : c \in {"PyPDF2.PdfReader", "extract_text_tesseract",
                                    "docx.Document", "textract.process", "antiword",
                                    "openpyxl.load_workbook", "xlrd.open_workbook",
                                    "Image.open", "pytesseract.image_to_string"})

\* The call's handlers have logged extraction failures only: the call has
\* not come to store_text_in_json, or store_text_in_json wrote the artifact
\* (if there was text) and the record without a failure.
OnlyExtractionLogged ==
    \/ Count(calls, "store_text_in_json") = 0
    \/ /\ result = Returned(None)
       /\ text = EmptyStr \/ Uploaded([name |-> TxtFilename(resource), content |-> text])

\* The first of two calls: process_resource on a resource of one of the
\* extraction branches.
CallFirst ==
    /\ prev = NoPrev
    /\ CallProcessBranch

\* The first call has ended and is remembered; the dataset record and /tmp
\* stay as the call left them.
FinishFirst ==
    /\ pc = "done"
    /\ prev = NoPrev
    /\ prev' = [resource |-> resource, file |-> file, fmt |-> fmt, text |-> text,
                result |-> result, calls |-> calls, caught |-> caught,
                quiet |-> OnlyExtractionLogged]
    /\ EndOfCall
    /\ UNCHANGED <<snapshot, impl, chain, response, jobs, tmpdata, dataset, tmpfiles>>

\* process_resource is called again on the same resource and file.
CallAgain ==
    /\ prev # NoPrev
    /\ BeginCall("process_resource", prev.resource, prev.file, "resolve")

\* The second call has ended; the next pair of calls starts afresh.
FinishSecond ==
    /\ pc = "done"
    /\ prev # NoPrev
    /\ prev' = NoPrev
    /\ EndOfCall
    /\ dataset' = InitialDataset
    /\ tmpfiles' = {}
    /\ UNCHANGED <<snapshot, impl, chain, response, jobs, tmpdata>>

NextTwice ==
    \/ CallFirst
    \/ BoundedSteps
    \/ UnboundedSteps
    \/ FinishFirst
    \/ CallAgain
    \/ FinishSecond

\* process_resource, called twice on the same resource and file.
SpecTwice == Init /\ [][NextTwice]_vars

\* ------------------------------------------------------------------------
\* Invocations side by side
\* ------------------------------------------------------------------------

\* What the invocations that run side by side are given: resources of one
\* dataset, two of them with the same base name, and the text extracted
\* from each.
JobInputs ==
    {[resource |-> Resource(<<"p", "d", "f">>, <<"x", "/", "a", ".", "p", "d", "f">>, EmptyStr), text |-> <<"o", "n", "e">>],
     [resource |-> [Resource(<<"d", "o", "c">>, <<"y", "/", "a", ".", "d", "o", "c">>, EmptyStr) EXCEPT !.id = <<"r", "2">>],
      text |-> <<"f", "ü", "r">>],
     [resource |-> [Resource(<<"p", "d", "f">>, <<"b", ".", "p", "d", "f">>, EmptyStr) EXCEPT !.id = <<"r", "3">>],
      text |-> <<"s", "e", "v", "e", "n">>]}

\* The invocations between their package_show and their package_update.
Midway == {j \in Jobs : jobs[j].pc \in {"open", "write", "upload", "post", "update"}}

\* Line 109 of process_resource: an invocation has extracted its text and
\* calls store_text_in_json.
JobBegin(j) ==
    /\ jobs[j].pc = "idle"
    /\ \E in \in JobInputs :
          /\ jobs' = [jobs EXCEPT ![j] = [NoJob EXCEPT !.pc = "read",
                                                        !.resource = in.resource,
                                                        !.text = in.text]]
    /\ UNCHANGED <<snapshot, pc, entry, impl, chain, resource, file, fmt, text, bound, result, calls, caught,
                   dataset, uploads, tmpfiles, json_obj, pending, fetched, response, prev,
                   tmpdata>>

\* Lines 23-37 of store_text_in_json: resource_show, then package_show gives
\* the record as it is now. An invocation that reads while another is
\* midway, or while none is midway and reads before another that is, does
\* not run alone.
JobRead(j) ==
    /\ jobs[j].pc = "read"
    /\ \/ jobs' = [k \in Jobs |->
                      IF k = j
                      THEN [jobs[j] EXCEPT !.pc = "open", !.snapshot = dataset,
                                           !.alone = (Midway = {})]
                      ELSE IF k \in Midway
                           THEN [jobs[k] EXCEPT !.alone = FALSE]
                           ELSE jobs[k]]
       \/ jobs' = [jobs EXCEPT ![j].pc = "done", ![j].ended = "raised"]
    /\ UNCHANGED <<snapshot, pc, entry, impl, chain, resource, file, fmt, text, bound, result, calls, caught,
                   dataset, uploads, tmpfiles, json_obj, pending, fetched, response, prev,
                   tmpdata>>

\* The bytes the files under /tmp hold, the one at path holding data.
WithFile(path, data) ==
    [p \in tmpfiles \cup {path} |-> IF p = path THEN data ELSE tmpdata[p]]

\* A byte of a file: one below 128 is written as its character, any other
\* as x and its two hexadecimal digits.
Utf8Byte(n) == IF n < 128 THEN Chr(n) ELSE "x" \o HexName(n, 2)

\* The bytes of the character with code point n in UTF-8.
Utf8Bytes(n) ==
    IF n < 128 THEN <<Utf8Byte(n)>>
    ELSE IF n < 2048 THEN <<Utf8Byte(192 + n \div 64), Utf8Byte(128 + (n % 64))>>
    ELSE IF n < 65536
    THEN <<Utf8Byte(224 + n \div 4096), Utf8Byte(128 + ((n \div 64) % 64)),
           Utf8Byte(128 + (n % 64))>>
    ELSE <<Utf8Byte(240 + n \div 262144), Utf8Byte(128 + ((n \div 4096) % 64)),
           Utf8Byte(128 + ((n \div 64) % 64)), Utf8Byte(128 + (n % 64))>>

\* open(file_path, "w", encoding="utf-8"): what file.write(text_content) puts into
\* the file, the bytes of the text in UTF-8.
Encode(text_content) ==
    ConcatAll([i \in 1..Len(text_content) |-> Utf8Bytes(Cp(text_content[i]))])

\* The text has a place in UTF-8: none of its characters is a surrogate, on
\* which file.write raises UnicodeEncodeError.
Encodable(text_content) ==
    \A i \in 1..Len(text_content) : Cp(text_content[i]) \notin 55296..57343

\* The bytes of a file that holds the bytes old after the bytes data were
\* written at its start: what lies behind the data stays.
Overwritten(old, data) == data \o SubSeq(old, Len(data) + 1, Len(old))

\* Lines 41-42 of store_text_in_json and lines 73-74 of store_text_as_txt:
\* open(file_path, "w") makes the file, or cuts the file that is there to
\* nothing. When open raises, that is logged and the invocation goes on
\* without the artifact.
JobOpen(j) ==
    /\ jobs[j].pc = "open"
    /\ \/ /\ tmpfiles' = tmpfiles \cup {TxtPath(jobs[j].resource)}
          /\ tmpdata' = WithFile(TxtPath(jobs[j].resource), EmptyStr)
          /\ jobs' = [jobs EXCEPT ![j].pc = "write"]
       \/ /\ jobs' = [jobs EXCEPT ![j].pc = "update"]
          /\ UNCHANGED <<tmpfiles, tmpdata>>
    /\ UNCHANGED <<snapshot, pc, entry, impl, chain, resource, file, fmt, text, bound, result,
                   calls, caught, dataset, uploads, json_obj, pending, fetched, response,
                   prev>>

\* Lines 75-79 of store_text_as_txt: the bytes of the text go into the file
\* when it is written and closed, at the start of the file, whatever another
\* invocation has written there since the file was opened. When that
\* raises, it is logged, the file stays as it is and the invocation goes on
\* without the artifact.
JobWrite(j) ==
    /\ jobs[j].pc = "write"
    /\ \/ /\ Encodable(jobs[j].text)
          /\ tmpdata' = WithFile(TxtPath(jobs[j].resource),
                                 Overwritten(tmpdata[TxtPath(jobs[j].resource)],
                                             Encode(jobs[j].text)))
          /\ jobs' = [jobs EXCEPT ![j].pc = "upload"]
       \/ /\ jobs' = [jobs EXCEPT ![j].pc = "update"]
          /\ UNCHANGED tmpdata
    /\ UNCHANGED <<snapshot, pc, entry, impl, chain, resource, file, fmt, text, bound, result,
                   calls, caught, dataset, uploads, tmpfiles, json_obj, pending, fetched,
                   response, prev>>

\* Line 45 of store_text_in_json and upload_to_ckan up to its request: the
\* file at the path is opened and posted as it is now.
JobUpload(j) ==
    /\ jobs[j].pc = "upload"
    /\ jobs' = [jobs EXCEPT ![j].pc = "post",
                            ![j].body = tmpdata[TxtPath(jobs[j].resource)]]
    /\ UNCHANGED <<snapshot, pc, entry, impl, chain, resource, file, fmt, text, bound, result,
                   calls, caught, dataset, uploads, tmpfiles, json_obj, pending, fetched,
                   response, prev, tmpdata>>

\* upload_to_ckan from its request on, and lines 46-47 of
\* store_text_in_json: CKAN has made a resource of what was posted and says
\* so, or upload_to_ckan returns None and the invocation goes on.
JobPost(j) ==
    /\ jobs[j].pc = "post"
    /\ \/ /\ uploads' = Append(uploads, [name |-> TxtFilename(jobs[j].resource),
                                         content |-> jobs[j].body])
          /\ dataset' = [dataset EXCEPT !.resources = @ \cup {TxtFilename(jobs[j].resource)}]
          /\ jobs' = [jobs EXCEPT ![j].pc = "update", ![j].artifact = jobs[j].body]
       \/ /\ jobs' = [jobs EXCEPT ![j].pc = "update"]
          /\ UNCHANGED <<dataset, uploads>>
    /\ UNCHANGED <<snapshot, pc, entry, impl, chain, resource, file, fmt, text, bound, result,
                   calls, caught, tmpfiles, json_obj, pending, fetched, response, prev,
                   tmpdata>>

\* The record holds something the invocation's package_show did not give
\* and the invocation did not upload itself.
ChangedSince(j) ==
    \/ dataset.extras # jobs[j].snapshot.extras
    \/ dataset.resources \ {TxtFilename(jobs[j].resource)}
          # jobs[j].snapshot.resources \ {TxtFilename(jobs[j].resource)}

\* Lines 50-66 of store_text_in_json: the record read before is written back
\* with the metadata key set; a failure of package_update is logged and
\* raised.
JobUpdate(j) ==
    /\ jobs[j].pc = "update"
    /\ \/ /\ \E now \in Instants : dataset' = Merged(jobs[j].snapshot, jobs[j].text, now)
          /\ jobs' = [jobs EXCEPT ![j].pc = "done", ![j].ended = "returned",
                                  ![j].overwrote = ChangedSince(j)]
       \/ /\ jobs' = [jobs EXCEPT ![j].pc = "done", ![j].ended = "raised"]
          /\ UNCHANGED dataset
    /\ UNCHANGED <<snapshot, pc, entry, impl, chain, resource, file, fmt, text, bound, result, calls, caught,
                   uploads, tmpfiles, json_obj, pending, fetched, response, prev, tmpdata>>

\* All invocations have ended; the next begin on a fresh dataset and /tmp.
JobsEnd ==
    /\ \A j \in Jobs : jobs[j].pc = "done"
    /\ jobs' = [j \in Jobs |-> NoJob]
    /\ tmpdata' = << >>
    /\ tmpfiles' = {}
    /\ uploads' = << >>
    /\ dataset' = InitialDataset
    /\ UNCHANGED <<snapshot, pc, entry, impl, chain, resource, file, fmt, text, bound, result, calls, caught,
                   json_obj, pending, fetched, response, prev>>

NextJobs ==
    \/ \E j \in Jobs : JobBegin(j)
    \/ \E j \in Jobs : JobRead(j)
    \/ \E j \in Jobs : JobOpen(j)
    \/ \E j \in Jobs : JobWrite(j)
    \/ \E j \in Jobs : JobUpload(j)
    \/ \E j \in Jobs : JobPost(j)
    \/ \E j \in Jobs : JobUpdate(j)
    \/ JobsEnd

\* Invocations of process_resource for different resources of one dataset,
\* side by side, from the point where each has extracted its text.
SpecJobs == Init /\ [][NextJobs]_vars

\* ------------------------------------------------------------------------
\* Resolution and dispatch
\* ------------------------------------------------------------------------

\* process_resource is called on an input of ResolveInputs whose file is at
\* the storage path.
InitDispatch ==
    /\ pc = "resolve"
    /\ entry = "process_resource"
    /\ impl \in Impls
    /\ resource \in ResolveInputs
    /\ file = DocFile(<<"h", "i">>)
    /\ fmt = None
    /\ text = EmptyStr
    /\ bound = NoBound
    /\ result = NoResult
    /\ calls = << >>
    /\ caught = << >>
    /\ dataset = InitialDataset
    /\ uploads = << >>
    /\ tmpfiles = {}
    /\ json_obj = JNull
    /\ pending = << >>
    /\ fetched = << >>
    /\ InitBeside

NextDispatch ==
    \/ Resolve
    \/ CheckFile
    \/ Dispatch

\* process_resource up to the branch its dispatch takes, on every input of
\* ResolveInputs.
SpecDispatch == InitDispatch /\ [][NextDispatch]_vars
\* ------------------------------------------------------------------------
\* Resources the pipeline creates come back through after_resource_create
\* ------------------------------------------------------------------------

\* upload_to_ckan: the format field it posts, the extension of original_name,
\* or of file_path when no original_name is given, without its dot and in
\* lower case, or "bin".
UploadFormat(file_path, original_name) ==
    PyOr(Lower(LStrip(splitext(PyOr(original_name, file_path))[2], ".")), <<"b", "i", "n">>)

\* The resource CKAN's resource_create makes of the fields upload_to_ckan
\* posts, as after_resource_create gets it: name and format as posted, and
\* the url that ends in the name of the uploaded file.
CreatedResource(file_path, original_name) ==
    Resource(UploadFormat(file_path, original_name),
             UploadName(file_path, original_name),
             UploadName(file_path, original_name))

\* The resources a client creates or updates: those of every branch, and a
\* document whose url ends in a query, which leaves its artifact no name
\* but the suffix.
ClientResources ==
    PluginResources \cup {Resource(EmptyStr, <<"h", "/", "d", "/", "?", "a", ".", "d", "o", "c", "x">>, EmptyStr)}

\* A manifest of two documents.
TwoDocuments ==
    <<"{", "\"", "r", "e", "l", "e", "a", "s", "e", "s", "\"", ":", " ", "[", "{", "\"", "t", "e", "n", "d", "e", "r", "\"", ":", " ", "{", "\"", "d", "o", "c", "u", "m", "e", "n", "t", "s", "\"", ":", " ", "[", "{", "\"", "u", "r", "l", "\"", ":", " ", "\"", "h", "/", "a", ".", "p", "d", "f", "\"", "}", ",", " ", "{", "\"", "u", "r", "l", "\"", ":", " ", "\"", "h", "/", "b", "\"", "}", "]", "}", "}", "]", "}">>

\* The files CKAN holds for a resource of a client: those of ProcessFiles,
\* and for a manifest also one that names two documents.
ClientFiles(res) ==
    ProcessFiles(res) \cup
        (IF DispatchPc(ExtFmt(PyOr(UrlOrName(res), EmptyStr))) = "json"
         THEN {JsonFile(TwoDocuments)} ELSE {})

\* The files CKAN holds for a created resource: what was uploaded, which is
\* whatever the server of the document sent, or the text artifact.
CreatedFiles(res) == {f \in ProcessFiles(res) : f.exists}

\* The assignments with which a hook enters _process_resource.
EnterHook(h, r, f) ==
    /\ pc' = "resolve"
    /\ entry' = h
    /\ resource' = r
    /\ file' = f
    /\ fmt' = None
    /\ text' = EmptyStr
    /\ bound' = NoBound
    /\ result' = NoResult
    /\ calls' = << >>
    /\ caught' = << >>
    /\ uploads' = << >>
    /\ json_obj' = JNull
    /\ pending' = << >>
    /\ fetched' = << >>

\* A client creates or updates a resource of a dataset, and CKAN calls the
\* hook with it.
ClientEvent ==
    /\ pc = "idle"
    /\ chain.stack = << >>
    /\ \E h \in {"after_resource_create", "after_resource_update"}, r \in ClientResources :
          \E f \in ClientFiles(r) :
             /\ EnterHook(h, r, f)
             /\ chain' = [stack |-> << >>,
                          now |-> [resource |-> r, parent |-> NoResource,
                                   maker |-> "client", gen |-> 0, hooked |-> 0],
                          made |-> 0]
    /\ dataset' = InitialDataset
    /\ tmpfiles' = {}
    /\ UNCHANGED <<snapshot, impl, response, prev, jobs, tmpdata>>

\* What the running call holds, as it stays while the call waits in
\* requests.post.
Frame ==
    [pc |-> pc, entry |-> entry, resource |-> resource, file |-> file, fmt |-> fmt,
     text |-> text, bound |-> bound, result |-> result, calls |-> calls,
     caught |-> caught, uploads |-> uploads, json_obj |-> json_obj,
     pending |-> pending, fetched |-> fetched, snapshot |-> snapshot,
     now |-> chain.now]

\* The post a call is at: the document it fetched, by its number, or the
\* one text artifact.
PostAt(at, docs) == IF at = "fetch_post" THEN Len(docs) ELSE 1

\* The resource of the post the running call is at has been through the
\* hook.
Hooked == chain.now.hooked = PostAt(pc, fetched)

\* The resource CKAN makes of the post the running call is at, and the
\* function that posted it.
Posted ==
    IF pc = "fetch_post"
    THEN [resource |-> CreatedResource(Fetching.tmp, Fetching.name),
          maker |-> "upload_pdf_from_url"]
    ELSE [resource |-> CreatedResource(TxtPath(resource), None),
          maker |-> "store_text_in_json"]

\* The running call waits in requests.post of upload_to_ckan: CKAN's
\* resource_create makes the resource and calls after_resource_create with
\* it before it answers.
CreatedEvent ==
    /\ pc \in {"fetch_post", "store_post"}
    /\ ~Hooked
    /\ \E f \in CreatedFiles(Posted.resource) :
          EnterHook("after_resource_create", Posted.resource, f)
    /\ chain' = [stack |-> Append(chain.stack, Frame),
                 now |-> [resource |-> Posted.resource, parent |-> resource,
                          maker |-> Posted.maker, gen |-> chain.now.gen + 1,
                          hooked |-> 0],
                 made |-> chain.made + 1]
    /\ dataset' = [dataset EXCEPT !.resources = @ \cup {Posted.resource.name}]
    /\ snapshot' = None
    /\ UNCHANGED <<impl, response, prev, jobs, tmpdata, tmpfiles>>

\* The hook called for a created resource has returned or raised: CKAN
\* answers the post, and the call that posted goes on in requests.post.
CreatedReturn ==
    /\ pc = "done"
    /\ entry = "after_resource_create"
    /\ chain.stack # << >>
    /\ \E top \in {chain.stack[Len(chain.stack)]} :
          /\ pc' = top.pc
          /\ entry' = top.entry
          /\ resource' = top.resource
          /\ file' = top.file
          /\ fmt' = top.fmt
          /\ text' = top.text
          /\ bound' = top.bound
          /\ result' = top.result
          /\ calls' = top.calls
          /\ caught' = top.caught
          /\ uploads' = top.uploads
          /\ json_obj' = top.json_obj
          /\ pending' = top.pending
          /\ fetched' = top.fetched
          /\ snapshot' = top.snapshot
          /\ chain' = [stack |-> SubSeq(chain.stack, 1, Len(chain.stack) - 1),
                       now |-> [top.now EXCEPT !.hooked = PostAt(top.pc, top.fetched)],
                       made |-> chain.made]
    /\ UNCHANGED <<impl, response, prev, jobs, tmpdata, dataset, tmpfiles>>

\* requests.post returns in upload_pdf_from_url's upload_to_ckan. The answer
\* carries an id only when CKAN has made the resource, and so after the hook
\* called with it has returned; the post can fail before CKAN makes
\* anything, and after.
FetchPostAnswered ==
    /\ FetchPost
    /\ fetched'[Len(fetched')].outcome = "uploaded" => Hooked

\* requests.post returns in store_text_in_json's upload_to_ckan, likewise.
StorePostAnswered ==
    /\ StorePost
    /\ uploads' # uploads => Hooked

\* The hook called for the resource of a client has returned or raised to
\* CKAN.
HookReturn ==
    /\ pc = "done"
    /\ entry \in {"after_resource_create", "after_resource_update"}
    /\ chain.stack = << >>
    /\ chain' = [chain EXCEPT !.now = NoEvent]
    /\ EndOfCall
    /\ UNCHANGED <<snapshot, impl, response, prev, jobs, tmpdata, dataset, tmpfiles>>

\* The hooks in CKAN: a client's resource event, and inside every post of
\* the call it starts the event of the resource the post created.
NextReentry ==
    \/ ClientEvent
    \/ CreatedEvent
    \/ CreatedReturn
    \/ Resolve
    \/ CheckFile
    \/ Dispatch
    \/ ExtractDocx
    \/ ExtractorSteps
    \/ ProcessJson
    \/ UploadFromJson
    \/ FetchUrl
    \/ FetchTempFile
    \/ FetchStream
    \/ FetchUpload
    \/ FetchPostAnswered
    \/ FetchRemove
    \/ UploadFromJsonEnd
    \/ Store
    \/ PackageShow
    \/ StoreTextAsTxt
    \/ StoreUpload
    \/ StorePostAnswered
    \/ PackageUpdate
    \/ HookEnd
    \/ HookReturn

SpecReentry == InitPlugin /\ [][NextReentry]_vars
\* ------------------------------------------------------------------------
\* Properties
\* ------------------------------------------------------------------------

\* The url (or name) carries the extension k: lower-cased it ends with a dot
\* and k, and the file name has a character other than a dot before that dot.
HasExtension(url, k) ==
    LET l == Lower(url)
    IN  /\ EndsWith(l, <<".">> \o k)
        /\ \E c \in DOMAIN basename(SubSeq(l, 1, Len(l) - Len(k) - 1)) :
              basename(SubSeq(l, 1, Len(l) - Len(k) - 1))[c] # "."

\* C1: once process_resource has resolved the format, a url (or name) whose
\* extension is a key of the synonym table and maps to a tag other than the
\* normalized declared format gives that tag as the resolved format, also when
\* the declared format is itself a known tag; declared 'data' with url
\* 'report.pdf' resolves to 'pdf'.
C1_ExtensionWins ==
    (entry = "process_resource" /\ fmt # None) =>
        /\ \A k \in DOMAIN format_map :
              (HasExtension(UrlOrName(resource), k) /\ format_map[k] # DeclaredFmt(resource))
                  => fmt = format_map[k]
        /\ (resource.format = <<"d", "a", "t", "a">> /\ resource.url = <<"r", "e", "p", "o", "r", "t", ".", "p", "d", "f">>) => fmt = <<"p", "d", "f">>

\* Witness of C1: a declared format that is a known tag (docx) loses to the
\* extension of the url (pdf).
C1_Witness ==
    /\ pc = "check_file"
    /\ resource.format = <<"d", "o", "c", "x">>
    /\ resource.url = <<"r", "e", "p", "o", "r", "t", ".", "p", "d", "f">>
    /\ fmt = <<"p", "d", "f">>

\* C2: once process_resource has resolved the format, a url (or name) with no
\* extension, or with an extension that is no key of the synonym table, leaves
\* the resolved format equal to the lower-cased, trimmed, synonym-mapped
\* declared format; declared 'pdf' with url 'report' resolves to 'pdf'.
C2_DeclaredKept ==
    (entry = "process_resource" /\ fmt # None) =>
        /\ (\A k \in DOMAIN format_map : ~HasExtension(UrlOrName(resource), k))
              => fmt = DeclaredFmt(resource)
        /\ (resource.format \in {<<"p", "d", "f">>, <<"P", "D", "F">>, <<" ", "p", "d", "f", " ">>} /\ resource.url = <<"r", "e", "p", "o", "r", "t">>)
              => fmt = <<"p", "d", "f">>

\* Witness of C2: an unknown extension (txt) does not override the declared
\* format, which is normalized to pdf.
C2_Witness ==
    /\ pc = "check_file"
    /\ resource.format = <<"P", "D", "F">>
    /\ resource.url = <<"r", ".", "t", "x", "t">>
    /\ fmt = <<"p", "d", "f">>

\* C3 (as claimed): a call of process_resource that resolved the format to a
\* value outside the synonym table's tags has returned normally when it ends,
\* has called no extraction strategy and no Result Sink operation, and has
\* uploaded nothing, whether the source file is present or missing.
C3_UnsupportedReturnsNormally ==
    (/\ entry = "process_resource"
     /\ pc = "done"
     /\ fmt # None
     /\ fmt \notin DictValues(format_map)) =>
        /\ result.kind = "returned"
        /\ \A i \in 1..Len(calls) : calls[i] = "os.path.isfile"
        /\ uploads = << >>

\* The text the claim expects from the pages of a PDF: the pages' texts, a
\* newline after each.
C4_Direct(pages) ==
    IF pages = << >> THEN EmptyStr
    ELSE Join([i \in 1..Len(pages) |-> IF pages[i] = None THEN EmptyStr ELSE pages[i]],
              <<"\n">>) \o <<"\n">>

\* C4: when extract_text_pdf returns, either the pages' texts with a newline
\* after each are shorter than 5 characters, the OCR fallback ran exactly once
\* and its result (the empty string when it failed) is what is returned, or
\* they are not shorter, they are what is returned and the OCR fallback never
\* ran.
C4_PdfQualityGate ==
    (entry = "extract_text_pdf" /\ pc = "done" /\ result.kind = "returned") =>
        IF Len(C4_Direct(file.pages)) < 5
        THEN /\ Count(calls, "extract_text_tesseract") = 1
             /\ result.value = IF caught = << >> THEN TesseractText(file) ELSE EmptyStr
        ELSE /\ Count(calls, "extract_text_tesseract") = 0
             /\ result.value = C4_Direct(file.pages)

\* Witness of C4: one page with three characters of text (four with the
\* newline) was sent to OCR, and the OCR text was returned.
C4_Witness ==
    /\ entry = "extract_text_pdf"
    /\ pc = "done"
    /\ file.pages = <<<<"a", "b", "c">>>>
    /\ Count(calls, "extract_text_tesseract") = 1
    /\ result = Returned(<<"s", "c", "a", "n">>)

\* C5 (as claimed): when extract_text_xlsx ends in failure, both readers have
\* failed and the failure is an Exception whose message contains the message
\* of the primary reader's error and that of the fallback reader's error.
C5_XlsxCompositeFailure ==
    (entry = "extract_text_xlsx" /\ pc = "done" /\ result.kind = "raised") =>
        /\ result.type = "Exception"
        /\ Len(caught) = 2
        /\ Contains(result.msg, caught[1])
        /\ Contains(result.msg, caught[2])

\* C6: in extract_text_xlsx the first try block (which starts with
\* os.path.isfile) runs before any attempt of the fallback reader; a call in
\* which the first block raised has attempted the fallback reader exactly once
\* when it ends; a call in which the first block succeeded returns the text
\* openpyxl gave and never attempts the fallback reader.
C6_XlsxChainOrder ==
    entry = "extract_text_xlsx" =>
        /\ \A i \in 1..Len(calls) :
              calls[i] = "import xlrd" => (i > 1 /\ calls[1] = "os.path.isfile")
        /\ pc = "xlrd" => (caught # << >> /\ Count(calls, "import xlrd") = 0)
        /\ (pc = "done" /\ caught # << >>) => Count(calls, "import xlrd") = 1
        /\ (pc = "done" /\ caught = << >>) =>
              /\ Count(calls, "import xlrd") = 0
              /\ calls[1] = "os.path.isfile"
              /\ result = Returned(SheetsText(OpenpyxlValues(file.sheets)))

\* Witness of C6: the first block raised on an empty file, before openpyxl was
\* called, and the fallback reader was attempted once.
C6_Witness ==
    /\ entry = "extract_text_xlsx"
    /\ pc = "done"
    /\ file = ZeroByteFile
    /\ calls = <<"os.path.isfile", "os.path.getsize", "import xlrd", "xlrd.open_workbook">>

\* C7 (as claimed): when extract_text_doc ends, antiword has been invoked
\* exactly once if the primary extractor failed (an exception was caught,
\* the failed import of textract included), and never if it succeeded.
C7_DocChainOrder ==
    (entry = "extract_text_doc" /\ pc = "done") =>
        IF caught # << >>
        THEN Count(calls, "antiword") = 1
        ELSE Count(calls, "antiword") = 0

\* C8: when extract_text_doc ends after antiword was invoked, either antiword
\* failed too and the exception raised carries a message containing the
\* message of textract's error and that of antiword's error, or antiword
\* succeeded and its decoded output is returned with no exception.
C8_DocCompositeFailure ==
    (entry = "extract_text_doc" /\ pc = "done" /\ Count(calls, "antiword") > 0) =>
        IF result.kind = "raised"
        THEN /\ Len(caught) >= 2
             /\ Contains(result.msg, caught[1])
             /\ Contains(result.msg, caught[2])
        ELSE /\ result = Returned(Decode(file.bytes))
             /\ Len(caught) = 1
             /\ file.bytes = <<"h", "xFF">> => result.value = <<"h", "uFFFD">>

\* Witness of C8: textract failed with E1, antiword with E2, and the message
\* raised holds both.
C8_Witness ==
    /\ entry = "extract_text_doc"
    /\ pc = "done"
    /\ result.kind = "raised"
    /\ Len(caught) >= 2
    /\ caught[1] = <<"E", "1">>
    /\ caught[2] = <<"E", "2">>
    /\ Contains(result.msg, <<"E", "1">>)
    /\ Contains(result.msg, <<"E", "2">>)

\* C9 (as claimed): when process_resource ends for a resource resolved to docx
\* whose file exists, the docx extractor was called once; for a readable
\* document the text is the paragraphs' texts joined by newlines and was
\* handed to store_text_in_json; otherwise the extractor's failure was raised,
\* nothing else was tried and store_text_in_json was not called.
C9_DocxDispatch ==
    (entry = "process_resource" /\ pc = "done" /\ fmt = <<"d", "o", "c", "x">> /\ file.exists) =>
        /\ Count(calls, "docx.Document") = 1
        /\ IF Readable({"docx"})
           THEN /\ text = Join(file.paragraphs, <<"\n">>)
                /\ Count(calls, "store_text_in_json") = 1
           ELSE /\ result.kind = "raised"
                /\ calls = <<"os.path.isfile", "docx.Document">>

\* How the claim renders a cell: an empty cell as the empty string.
C10_Cell(c) == IF c.t = "none" THEN EmptyStr ELSE PyStr(c)

RECURSIVE C10_Row(_)
\* A row: its cells, a tab between two cells, one newline at the end.
C10_Row(row) ==
    IF row = << >> THEN <<"\n">>
    ELSE C10_Cell(row[1]) \o (IF Len(row) = 1 THEN <<"\n">> ELSE <<"\t">> \o C10_Row(Tail(row)))

RECURSIVE C10_Rows(_)
C10_Rows(rows) ==
    IF rows = << >> THEN EmptyStr ELSE C10_Row(rows[1]) \o C10_Rows(Tail(rows))

\* The rows of all sheets, in workbook order.
C10_Text(sheets) == C10_Rows(ConcatAll(sheets))

\* C10: the text extract_text_xlsx returns is, for every row of every sheet in
\* order, the values the reader that succeeded gave for the row's cells,
\* rendered as strings (an empty cell as the empty string), joined by tabs and
\* followed by one newline, for openpyxl and for xlrd alike; one sheet with
\* rows [a, b] and [1, 2] gives a<TAB>b<NEWLINE>1<TAB>2<NEWLINE>.
C10_SpreadsheetText ==
    (entry = "extract_text_xlsx" /\ pc = "done" /\ result.kind = "returned") =>
        /\ result.value =
              C10_Text(IF Count(calls, "import xlrd") = 0
                       THEN OpenpyxlValues(file.sheets)
                       ELSE XlrdValues(file.sheets))
        /\ file.sheets = ExampleWorkbook => result.value = <<"a", "\t", "b", "\n", "1", "\t", "2", "\n">>

\* Witness of C10: openpyxl read the example workbook.
C10_Witness ==
    /\ entry = "extract_text_xlsx"
    /\ pc = "done"
    /\ file.sheets = ExampleWorkbook
    /\ Count(calls, "import xlrd") = 0
    /\ result = Returned(<<"a", "\t", "b", "\n", "1", "\t", "2", "\n">>)


\* C11: a failure of the OCR fallback of extract_text_pdf (page rendering or
\* the OCR engine raises) gives the empty string: no exception reaches
\* process_resource, which goes on to the persist step with empty text and no
\* failure outcome.
C11_OcrBestEffort ==
    [][(pc = "ocr" /\ caught' # caught) =>
          /\ text' = EmptyStr
          /\ pc' = "store"
          /\ result' = NoResult
          /\ Count(calls', "extract_text_tesseract") = 1]_vars

\* Witness of C11: process_resource stands at the persist step with empty
\* text, after the OCR fallback has failed on a PDF with no embedded text.
C11_Witness ==
    /\ pc = "store"
    /\ entry = "process_resource"
    /\ fmt = <<"p", "d", "f">>
    /\ calls[Len(calls)] = "extract_text_tesseract"
    /\ caught # << >>
    /\ text = EmptyStr
    /\ result = NoResult

\* The member of a parsed object at a key: null when v is no object or has no
\* such key.
Member(v, key) ==
    IF v.t = "obj" /\ \E i \in 1..Len(v.keys) : v.keys[i] = key
    THEN v.items[CHOOSE i \in 1..Len(v.keys) : v.keys[i] = key]
    ELSE JNull

\* The parsed manifest is an object with a top-level key.
HasTopLevel(key) == json_obj.t = "obj" /\ \E i \in 1..Len(json_obj.keys) : json_obj.keys[i] = key

\* The documents of all releases of the manifest, in manifest order.
ReleaseDocuments ==
    LET releases == Member(json_obj, <<"r", "e", "l", "e", "a", "s", "e", "s">>).items
    IN  ConcatAll([i \in 1..Len(releases) |->
                      Member(Member(releases[i], <<"t", "e", "n", "d", "e", "r">>), <<"d", "o", "c", "u", "m", "e", "n", "t", "s">>).items])

\* The value at links.pdf.DEU of the manifest.
DeuValue == Member(Member(Member(json_obj, <<"l", "i", "n", "k", "s">>), <<"p", "d", "f">>), <<"D", "E", "U">>)

\* The urls handed to upload_pdf_from_url in this call, in order, as the
\* logs show them.
FetchedUrls == [i \in 1..Len(fetched) |-> fetched[i].url]

\* C12: classification is first-match with 'releases' first: for a parsed
\* manifest object with a top-level 'releases' key, every url handed to the
\* fetcher is the url of a document under releases/tender/documents, and the
\* links.pdf.DEU url is never fetched, also when that path is present.
C12_ReleasesFirst ==
    (entry = "process_resource" /\ HasTopLevel(<<"r", "e", "l", "e", "a", "s", "e", "s">>)) =>
        \A i \in 1..Len(fetched) :
            /\ \E d \in 1..Len(ReleaseDocuments) :
                  PyFormat(Member(ReleaseDocuments[d], <<"u", "r", "l">>)) = fetched[i].url
            /\ fetched[i].url # PyFormat(DeuValue)

\* Witness of C12: the call has ended on a manifest that has releases and a
\* links.pdf.DEU url, and the release's document was fetched.
C12_Witness ==
    /\ pc = "done"
    /\ entry = "process_resource"
    /\ HasTopLevel(<<"r", "e", "l", "e", "a", "s", "e", "s">>)
    /\ DeuValue = JStr(<<"h", "/", "d", ".", "p", "d", "f">>)
    /\ FetchedUrls = <<<<"h", "/", "a", ".", "p", "d", "f">>>>

\* The manifest has the nesting of a TED release: releases is a list of
\* objects, a tender that is there is an object, its documents, if there, are
\* a list of objects.
TedShape ==
    LET releases == Member(json_obj, <<"r", "e", "l", "e", "a", "s", "e", "s">>)
        IsObjList(v) == v.t = "arr" /\ \A i \in 1..Len(v.items) : v.items[i].t = "obj"
        Absent(v, key) == \A i \in 1..Len(v.keys) : v.keys[i] # key
    IN  /\ IsObjList(releases)
        /\ \A i \in 1..Len(releases.items) :
              LET release == releases.items[i]
                  tender  == Member(release, <<"t", "e", "n", "d", "e", "r">>)
              IN  \/ Absent(release, <<"t", "e", "n", "d", "e", "r">>)
                  \/ /\ tender.t = "obj"
                     /\ \/ Absent(tender, <<"d", "o", "c", "u", "m", "e", "n", "t", "s">>)
                        \/ IsObjList(Member(tender, <<"d", "o", "c", "u", "m", "e", "n", "t", "s">>))

\* The manifest has the nesting of a links manifest: links and links.pdf are
\* objects where they are there.
LinksShape ==
    LET links == Member(json_obj, <<"l", "i", "n", "k", "s">>)
        Absent(v, key) == \A i \in 1..Len(v.keys) : v.keys[i] # key
    IN  \/ Absent(json_obj, <<"l", "i", "n", "k", "s">>)
        \/ /\ links.t = "obj"
           /\ Absent(links, <<"p", "d", "f">>) \/ Member(links, <<"p", "d", "f">>).t = "obj"

\* The value is neither missing nor empty: no null, false, zero, empty
\* string, empty list or empty object.
NonEmpty(v) ==
    CASE v.t \in {"null", "false"} -> FALSE
      [] v.t = "str" -> v.s # EmptyStr
      [] v.t = "num" -> v.s # <<"0">>
      [] v.t = "float" -> v.s \notin {<<"0", ".", "0">>, <<"-", "0", ".", "0">>}
      [] v.t = "arr" -> v.items # << >>
      [] v.t = "obj" -> v.keys # << >>
      [] OTHER -> TRUE

\* The document has a non-empty url.
HasUrl(doc) == NonEmpty(Member(doc, <<"u", "r", "l">>))

\* The non-empty urls of the documents of all releases, in manifest order.
ExpectedUrls ==
    LET withUrl == SelectSeq(ReleaseDocuments, HasUrl)
    IN  [i \in 1..Len(withUrl) |-> PyFormat(Member(withUrl[i], <<"u", "r", "l">>))]

\* C13: when upload_from_json has ended on a TED release manifest, the urls
\* handed to the fetcher are exactly the non-empty url values of the documents
\* of every release's tender, in manifest order, each once; documents without
\* a url are skipped.  On a manifest without releases the single links.pdf.DEU
\* url is fetched when it is there; when it is not, nothing is fetched and no
\* error is raised.
C13_UrlCollection ==
    (entry = "process_resource" /\ pc = "done" /\ json_obj.t = "obj") =>
        /\ (HasTopLevel(<<"r", "e", "l", "e", "a", "s", "e", "s">>) /\ TedShape) =>
              /\ FetchedUrls = ExpectedUrls
              /\ result = Returned(None)
        /\ (~HasTopLevel(<<"r", "e", "l", "e", "a", "s", "e", "s">>) /\ LinksShape) =>
              /\ FetchedUrls = IF NonEmpty(DeuValue)
                               THEN <<PyFormat(DeuValue)>>
                               ELSE << >>
              /\ result = Returned(None)
              /\ fetched = << >> => caught = << >>
        /\ ~HasTopLevel(<<"r", "e", "l", "e", "a", "s", "e", "s">>) => Len(fetched) <= 1

\* Witness of C13: the call has ended on a manifest of two releases whose
\* documents include one without a url and one with an empty url; the three
\* other urls were fetched in manifest order.
C13_Witness ==
    /\ pc = "done"
    /\ entry = "process_resource"
    /\ HasTopLevel(<<"r", "e", "l", "e", "a", "s", "e", "s">>)
    /\ Len(ReleaseDocuments) = 5
    /\ FetchedUrls = <<<<"h", "/", "a", ".", "p", "d", "f">>, <<"h", "/", "b">>, <<"h", "/", "c", "?", "x">>>>


\* The payload is hex: a non-empty run of the digits 0-9, a-f and A-F.
C14_IsHex(p) ==
    p # EmptyStr /\ \A i \in 1..Len(p) : p[i] \in Digits \cup {"a", "b", "c", "d", "e", "f", "A", "B", "C", "D", "E", "F"}

\* The text of a template with each payload in plain quotes.
C14_Quoted(pieces) ==
    ConcatAll([i \in 1..Len(pieces) |->
                  IF i % 2 = 1 THEN pieces[i] ELSE <<"\"">> \o pieces[i] \o <<"\"">>])

\* The text holds a token ObjectId("<hex>").
C14_HasToken(s) ==
    \E i \in {j \in 1..Len(s) : s[j] = "O"}, n \in 1..Len(s) :
        /\ i + n + 11 <= Len(s)
        /\ SubSeq(s, i, i + 9) = <<"O", "b", "j", "e", "c", "t", "I", "d", "(", "\"">>
        /\ C14_IsHex(SubSeq(s, i + 10, i + 9 + n))
        /\ SubSeq(s, i + 10 + n, i + 11 + n) = <<"\"", ")">>

\* The manifest branch has just parsed the text, or has just failed to.
C14_AfterParsing ==
    /\ entry = "process_resource"
    /\ pc \in {"manifest", "done"}
    /\ calls # << >>
    /\ calls[Len(calls)] = "json.loads"

\* json.loads has returned: process_resource goes on to upload_from_json.
C14_ParsingSucceeded == pc = "manifest"

\* C14: for a manifest text that is valid JSON but for its tokens
\* ObjectId("<hex>"), process_resource parses the text with each token
\* rewritten to the quoted hex payload: parsing succeeds and the parsed value
\* holds each payload as a plain string where its token stood.  A text
\* without such tokens is parsed as it is: parsing succeeds when the text is
\* JSON, and gives its value.
C14_ObjectIdRewriting ==
    C14_AfterParsing =>
        /\ \A pieces \in ObjectIdTemplates :
              (/\ file.content = WithObjectIds(pieces)
               /\ \A i \in 1..Len(pieces) : i % 2 = 0 => C14_IsHex(pieces[i])
               /\ IsJson(C14_Quoted(pieces)))
              => /\ C14_ParsingSucceeded
                 /\ json_obj = JsonValue(C14_Quoted(pieces))
        /\ ~C14_HasToken(file.content) =>
              /\ C14_ParsingSucceeded <=> IsJson(file.content)
              /\ C14_ParsingSucceeded => json_obj = JsonValue(file.content)

\* The urls upload_from_json has yet to hand to the fetcher.
C15_PendingUrls == [i \in 1..Len(pending) |-> PyFormat(pending[i])]

\* The log holds a message that starts with prefix.
C15_Logged(prefix) ==
    \E i \in 1..Len(caught) :
        Len(caught[i]) >= Len(prefix) /\ SubSeq(caught[i], 1, Len(prefix)) = prefix

\* C15: in the ingestion of a manifest with several urls, the failure of one
\* url (timeout, network error, non-success status, upload failure) never
\* keeps a later url from being attempted: while urls are fetched, the urls
\* attempted and the urls still to come are together the urls of the
\* manifest, whatever the outcomes were, and at the end every url has been
\* attempted.  A timeout is logged as a timeout, any other exception as an
\* error of that url, and upload_from_json returns to its caller without
\* raising.
C15_FailureIsolation ==
    (entry = "process_resource" /\ pc \in {"fetch", "done"}
        /\ Count(calls, "upload_from_json") = 1) =>
        /\ (HasTopLevel(<<"r", "e", "l", "e", "a", "s", "e", "s">>) /\ TedShape) =>
              /\ pc = "fetch" => FetchedUrls \o C15_PendingUrls = ExpectedUrls
              /\ pc = "done" => FetchedUrls = ExpectedUrls
        /\ \A i \in 1..Len(fetched) :
              /\ fetched[i].outcome = "timeout" =>
                    C15_Logged(<<"T", "i", "m", "e", "o", "u", "t", " ", "w", "h", "i", "l", "e", " ", "d", "o", "w", "n", "l", "o", "a", "d", "i", "n", "g", " ", "f", "i", "l", "e", ":", " ">> \o fetched[i].url)
              /\ fetched[i].outcome \in {"connection_error", "http_error"} =>
                    C15_Logged(<<"E", "r", "r", "o", "r", " ", "d", "o", "w", "n", "l", "o", "a", "d", "i", "n", "g", "/", "u", "p", "l", "o", "a", "d", "i", "n", "g", " ", "f", "i", "l", "e", " ">> \o fetched[i].url \o <<":", " ">>)
        /\ pc = "done" => result = Returned(None)

\* Witness of C15: the call has ended on a manifest of three urls; the first
\* timed out, the second was answered with an error status, the third failed
\* to upload, and all three were attempted.
C15_Witness ==
    /\ pc = "done"
    /\ entry = "process_resource"
    /\ FetchedUrls = <<<<"h", "/", "a", ".", "p", "d", "f">>, <<"h", "/", "b">>, <<"h", "/", "c", "?", "x">>>>
    /\ fetched[1].outcome = "timeout"
    /\ fetched[2].outcome = "http_error"
    /\ fetched[3].outcome = "upload_failed"
    /\ result = Returned(None)

\* C16: every temporary file upload_pdf_from_url has created for a download
\* is deleted once before the call returns, on every exit path (upload done,
\* upload failed, failure while the body was streamed to the file), and after
\* a manifest ingestion no temporary file it created is left on disk.
C16_TempFilesRemoved ==
    (entry = "process_resource" /\ pc = "done") =>
        \A i \in 1..Len(fetched) :
            fetched[i].tmp # None =>
                /\ fetched[i].removed = 1
                /\ fetched[i].tmp \notin tmpfiles

\* The text of the header's parameter that starts at position s: up to the
\* next semicolon, without the blanks around it.
C17_Param(cd, s) ==
    LET stops == {j \in s..Len(cd) : cd[j] = ";"} \cup {Len(cd) + 1}
    IN  Strip(SubSeq(cd, s, SetMin(stops) - 1))

\* The value of a parameter filename=value or filename="value": the empty
\* string when the parameter is no filename parameter.
C17_FilenameValue(param) ==
    LET key   == <<"f", "i", "l", "e", "n", "a", "m", "e", "=">>
        value == SubSeq(param, Len(key) + 1, Len(param))
        quoted == Len(value) >= 2 /\ value[1] = "\"" /\ value[Len(value)] = "\""
    IN  IF Len(param) > Len(key) /\ SubSeq(param, 1, Len(key)) = key
        THEN IF quoted THEN SubSeq(value, 2, Len(value) - 1) ELSE value
        ELSE EmptyStr

\* The filename parameter of a Content-Disposition header: the empty string
\* when the header is absent or has none.
C17_HeaderFilename(cd) ==
    IF cd = None
    THEN EmptyStr
    ELSE LET starts == {1} \cup {j + 1 : j \in {k \in 1..Len(cd) : cd[k] = ";"}}
             with   == {s \in starts : C17_FilenameValue(C17_Param(cd, s)) # EmptyStr}
         IN  IF with = {} THEN EmptyStr ELSE C17_FilenameValue(C17_Param(cd, SetMin(with)))

\* The last path segment of a url, its query string removed.
C17_LastSegment(file_url) ==
    LET queries == {j \in 1..Len(file_url) : file_url[j] = "?"} \cup {Len(file_url) + 1}
        path    == SubSeq(file_url, 1, SetMin(queries) - 1)
        slashes == {j \in 1..Len(path) : path[j] = "/"} \cup {0}
    IN  SubSeq(path, SetMax(slashes) + 1, Len(path))

\* The name ends with .pdf in any letter case.
C17_EndsWithPdf(name) ==
    /\ Len(name) >= 4
    /\ name[Len(name) - 3] = "."
    /\ name[Len(name) - 2] \in {"p", "P"}
    /\ name[Len(name) - 1] \in {"d", "D"}
    /\ name[Len(name)] \in {"f", "F"}

\* The name the claim gives a fetched document.
C17_ExpectedName(file_url, cd) ==
    LET chosen == IF C17_HeaderFilename(cd) # EmptyStr THEN C17_HeaderFilename(cd)
                  ELSE IF C17_LastSegment(file_url) # EmptyStr THEN C17_LastSegment(file_url)
                  ELSE <<"d", "o", "c", "u", "m", "e", "n", "t", ".", "p", "d", "f">>
    IN  IF C17_EndsWithPdf(chosen) THEN chosen ELSE chosen \o <<".", "p", "d", "f">>

\* C17: upload_pdf_from_url names the fetched file after the filename
\* parameter of the Content-Disposition header when there is one, else after
\* the last path segment of the url without its query string, else, when
\* that segment is empty, document.pdf; the name always ends with .pdf in
\* some letter case, and .pdf is appended only to a name that did not.
C17_FetchedFileName ==
    entry = "upload_pdf_from_url" =>
        \A i \in 1..Len(fetched) :
            fetched[i].name # None =>
                /\ fetched[i].name = C17_ExpectedName(fetched[i].url, fetched[i].cd)
                /\ C17_EndsWithPdf(fetched[i].name)

\* Witness of C17: a document was fetched whose header names it b.PDF, from
\* a url whose last segment is another name; it was uploaded as b.PDF.
C17_Witness ==
    /\ entry = "upload_pdf_from_url"
    /\ pc = "done"
    /\ Len(fetched) = 1
    /\ fetched[1].cd = <<"i", "n", "l", "i", "n", "e", ";", " ", "f", "i", "l", "e", "n", "a", "m", "e", "=", "b", ".", "P", "D", "F">>
    /\ fetched[1].url = <<"h", ":", "/", "/", "s", ".", "d", "e", "/", "d", "/", "d", "o", "c", ".", "p", "d", "f">>
    /\ fetched[1].name = <<"b", ".", "P", "D", "F">>
    /\ fetched[1].outcome = "uploaded"

\* C18: no entry point of the plugin that runs the pipeline (the action
\* docuvision_process_document, the hooks after_resource_create and
\* after_resource_update) lets a collaborator's own exception through: when
\* the pipeline has got as far as its collaborators (the file store, an
\* extraction library, the dataset record) and the call ends with an
\* exception, that exception is one of the structured errors of the toolkit.
C18_NoRawException ==
    (pc = "done" /\ entry \in PluginEntries /\ result.kind = "raised"
        /\ Count(calls, "os.path.isfile") = 1) =>
        result.type \in {"ValidationError", "ObjectNotFound"}

\* store_text_in_json has run in this call and one of its steps on the text
\* artifact failed: the file was not written (no upload was tried), or the
\* upload was tried and the dataset's uploads lack the artifact.
C19_ArtifactStepFailed ==
    /\ Count(calls, "store_text_in_json") = 1
    /\ \/ Count(calls, "store_text_as_txt") = 1 /\ Count(calls, "upload_to_ckan") = 0
       \/ /\ Count(calls, "upload_to_ckan") = 1
          /\ ~Uploaded([name |-> TxtFilename(resource), content |-> text])

\* C19: when a step of store_text_in_json fails (reading the record, writing
\* or uploading the text artifact, writing the metadata back),
\* process_resource ends in failure for its caller.
C19_PersistFailurePropagates ==
    (pc = "done" /\ entry = "process_resource" /\ C19_ArtifactStepFailed) =>
        result.kind = "raised"

\* C20: the action docuvision_process_document ends in one of two ways, the
\* success value {success: true, message} or a single descriptive error, and
\* it returns success only when the resource's text was extracted and
\* persisted whole: the metadata was written back and a non-empty text's
\* artifact was uploaded; never for a resource the pipeline skipped, a
\* manifest it failed to parse or ingest, or a result persisted in part.
C20_SuccessMeansPersisted ==
    (pc = "done" /\ entry = "docuvision_process_document") =>
        /\ \/ result = Returned(SuccessMessage(resource.id))
           \/ result.kind = "raised" /\ result.type \in {"ValidationError", "ObjectNotFound"}
        /\ result.kind = "returned" =>
              /\ Count(calls, "package_update") = 1
              /\ DictGet(dataset.extras, "extracted_text_data", None) \in {TextData(text, now) : now \in Instants}
              /\ text # EmptyStr =>
                    Uploaded([name |-> TxtFilename(resource), content |-> text])

\* C29: a PDF without a usable text layer (every page yields empty embedded
\* text) is sent to the OCR fallback by extract_text_pdf, however many pages
\* it has.
C29_ScannedPdfGoesToOcr ==
    (/\ entry = "extract_text_pdf"
     /\ pc = "done"
     /\ Readable({"pdf"})
     /\ \A i \in 1..Len(file.pages) : file.pages[i] \in {None, EmptyStr}) =>
        Count(calls, "extract_text_tesseract") = 1

\* C27: the text artifact file a process_resource call writes under /tmp
\* before the upload is removed before the call ends, on every exit path, so
\* no file the call created is left afterwards.
C27_ScratchFilesRemoved ==
    (/\ pc = "done"
     /\ entry = "process_resource"
     /\ Count(calls, "store_text_as_txt") = 1
     /\ Count(calls, "upload_to_ckan") = 1) =>
        TxtPath(resource) \notin tmpfiles

\* C30: when store_text_in_json has completed for non-empty text whose
\* artifact was uploaded, the dataset record holds the uploaded artifact and
\* the key extracted_text_data: what package_update wrote back is not a
\* snapshot from before the upload, without the artifact.
C30_RecordHoldsArtifact ==
    (/\ pc = "done"
     /\ entry = "process_resource"
     /\ result = Returned(None)
     /\ Count(calls, "package_update") = 1
     /\ Uploaded([name |-> TxtFilename(resource), content |-> text])) =>
        /\ TxtFilename(resource) \in dataset.resources
        /\ "extracted_text_data" \in DOMAIN dataset.extras

\* The extraction libraries and readers, primary and fallback.
C26_Libraries ==
    {"PyPDF2.PdfReader", "extract_text_tesseract", "docx.Document", "textract.process",
     "antiword", "openpyxl.load_workbook", "xlrd.open_workbook", "Image.open",
     "pytesseract.image_to_string"}

\* C26: on a missing or zero-byte file every extraction chain fails before
\* any extraction library or reader, primary or fallback, is called on the
\* file.
C26_FailFast ==
    (/\ entry \in Extractors
     /\ pc = "done"
     /\ ~file.exists \/ file.size = 0) =>
        /\ result.kind = "raised"
        /\ \A i \in 1..Len(calls) : calls[i] \notin C26_Libraries

\* The extraction strategies, and the chain each belongs to.
C28_ChainOf ==
    [s \in {"PyPDF2.PdfReader", "extract_text_tesseract"} |-> "pdf"]
        @@ [s \in {"docx.Document"} |-> "docx"]
        @@ [s \in {"textract.process", "antiword"} |-> "doc"]
        @@ [s \in {"openpyxl.load_workbook", "xlrd.open_workbook"} |-> "xlsx"]
        @@ [s \in {"Image.open", "pytesseract.image_to_string"} |-> "image"]

\* The places in the call's sequence of calls where a strategy was attempted.
C28_Attempts == {i \in 1..Len(calls) : calls[i] \in DOMAIN C28_ChainOf}

\* The places where the Result Sink was written.
C28_SinkWrites == {i \in 1..Len(calls) : calls[i] = "store_text_in_json"}

\* What holds in every state of a process_resource call.
C28_CallShape ==
    entry = "process_resource" =>
        /\ \A i \in C28_Attempts :
              /\ fmt # None
              /\ C28_ChainOf[calls[i]] = DispatchPc(fmt)
        /\ \A s \in DOMAIN C28_ChainOf : Count(calls, s) <= 1
        /\ Cardinality(C28_SinkWrites) <= 1
        /\ \A w \in C28_SinkWrites :
              /\ C28_Attempts # {}
              /\ \A i \in C28_Attempts : i < w
              /\ text \in Seq(STRING)
        /\ (pc = "done" /\ result.kind = "raised" /\ C28_SinkWrites = {}) =>
              uploads = << >>

\* C28: in a call of process_resource the format is resolved before the
\* dispatch, the strategies attempted all belong to the one chain the format
\* selects, each is attempted at most once, and the Result Sink is written
\* once at most and only after the chain has given its text; a call whose
\* extraction ends in failure leaves the Result Sink as it was.
C28_StateMachine ==
    /\ []C28_CallShape
    /\ [][(entry = "process_resource" /\ pc \notin StorePcs \cup FetchPcs) =>
             dataset' = dataset]_vars

\* Witness of C28: a call on a .doc file has ended; textract failed, antiword
\* gave the text, and the record was written after both.
C28_Witness ==
    /\ pc = "done"
    /\ entry = "process_resource"
    /\ DispatchPc(fmt) = "doc"
    /\ Count(calls, "textract.process") = 1
    /\ Count(calls, "antiword") = 1
    /\ calls[Len(calls)] = "package_update"
    /\ result = Returned(None)

\* C23: upload_to_ckan returns an id only for an answer with a 2xx status and
\* a JSON body whose success is true, returns None for every other answer,
\* for a timeout and for a transport error, and raises nothing.
C23_UploadResult ==
    (entry = "upload_to_ckan" /\ pc = "done") =>
        /\ result.kind = "returned"
        /\ result.value # None =>
              /\ response.kind = "response"
              /\ response.status \in 200..299
              /\ JsonValue(response.body).t = "obj"
              /\ ObjGet(JsonValue(response.body), <<"s", "u", "c", "c", "e", "s", "s">>, JNull) = JBool(TRUE)

\* C22: every call of process_resource ends, even when an external
\* collaborator never answers.
C22_CallTerminates ==
    (entry = "process_resource" /\ pc # "idle") ~> (pc = "done")

\* The strategies and the imports of the optional libraries, and those
\* among the calls cs.
C21_Engines == DOMAIN C28_ChainOf \cup {"import textract", "import xlrd"}

C21_Called(cs) == {cs[i] : i \in {j \in 1..Len(cs) : cs[j] \in C21_Engines}}

\* The strategies that failed in a call that made the calls cs, logged ct
\* and ended with res: a primary (or its import) whose fallback was called, the last
\* strategy of a call that raised before store_text_in_json, with what the
\* call raised for it, and the OCR fallback whose failure was logged.
C21_Failed(cs, ct, res) ==
    LET tried == SelectSeq(cs, LAMBDA c : c \in C21_Engines)
        last  == IF tried = << >> THEN "" ELSE tried[Len(tried)]
    IN  {<<tried[i], NoResult>> :
            i \in {j \in 1..(Len(tried) - 1) :
                      \/ tried[j] \in {"textract.process", "openpyxl.load_workbook"}
                      \/ tried[j] = "import textract" /\ tried[j + 1] = "antiword"}}
            \cup (IF res.kind = "raised" /\ Count(cs, "store_text_in_json") = 0
                  THEN {<<last, res>>} ELSE {})
            \cup (IF last = "extract_text_tesseract" /\ ct # << >>
                  THEN {<<last, NoResult>>} ELSE {})

\* The running call is the second of two, and its handlers have logged what
\* the handlers of the first logged while it extracted, and every strategy
\* both calls attempted failed in both or in neither: the engines behaved in
\* the second call as in the first.
C21_SameEngineBehaviour ==
    /\ prev # NoPrev
    /\ prev.quiet
    /\ entry = "process_resource"
    /\ pc \in {"store", "done"}
    /\ OnlyExtractionLogged
    /\ Count(calls, "store_text_in_json") = 0 \/ prev.result = Returned(None)
    /\ caught = prev.caught
    /\ \A e \in C21_Called(calls) \cap C21_Called(prev.calls) :
          {f \in C21_Failed(calls, caught, result) : f[1] = e} =
              {f \in C21_Failed(prev.calls, prev.caught, prev.result) : f[1] = e}

\* C21: a second call of process_resource on the same resource and file, in
\* which the engines behave as in the first, resolves the same format,
\* attempts the same strategies and gives the same text, and comes to
\* write the record if and only if the first did; no step of a call changes
\* the file.
C21_Idempotence ==
    /\ [](C21_SameEngineBehaviour =>
            /\ fmt = prev.fmt
            /\ Strategies(calls) = Strategies(prev.calls)
            /\ text = prev.text
            /\ (pc = "store" \/ Count(calls, "store_text_in_json") = 1) <=>
                  Count(prev.calls, "store_text_in_json") = 1)
    /\ [][(pc # "idle" /\ pc' # "idle") => file' = file]_vars

\* Witness of C21: the second call has extracted; a fallback gave the text
\* in both calls, and the first call left its record and a file in /tmp
\* behind.
C21_Witness ==
    /\ C21_SameEngineBehaviour
    /\ pc = "store"
    /\ caught # << >>
    /\ text # EmptyStr
    /\ tmpfiles # {}
    /\ "extracted_text_data" \in DOMAIN dataset.extras

\* C24: in every interleaving of invocations for different resources, the
\* text artifact uploaded for a resource holds the text extracted from that
\* resource.
C24_ArtifactHoldsOwnText ==
    \A j \in Jobs :
        (/\ jobs[j].artifact # None
         /\ \A k \in Jobs \ {j} :
                jobs[k].pc = "idle" \/ jobs[k].resource.id # jobs[j].resource.id)
            => jobs[j].artifact = Encode(jobs[j].text)

\* C25: when an invocation's package_show, merge and package_update run with
\* no other invocation in between, every extras key the record held before,
\* other than extracted_text_data, is in the record afterwards with its
\* value, and nothing another invocation changed is overwritten.
C25_ReadModifyWrite ==
    /\ [](\A j \in Jobs : jobs[j].alone => ~jobs[j].overwrote)
    /\ [][\A j \in Jobs :
             (/\ jobs[j].pc = "update"
              /\ jobs'[j].ended = "returned"
              /\ jobs[j].alone) =>
                 \A key \in DOMAIN dataset.extras \ {"extracted_text_data"} :
                     /\ key \in DOMAIN dataset'.extras
                     /\ dataset'.extras[key] = dataset.extras[key]]_vars

\* Witness of C25: two invocations were not serialized; one read the record
\* before the other wrote its metadata and wrote its own record after it, so
\* that the record holds nothing of what the other wrote.
C25_Witness ==
    \E j \in Jobs, k \in Jobs :
        /\ j # k
        /\ jobs[j].ended = "returned"
        /\ jobs[k].ended = "returned"
        /\ ~jobs[j].alone
        /\ jobs[j].overwrote
        /\ "extracted_text_data" \notin DOMAIN jobs[j].snapshot.extras
        /\ \E now \in Instants :
              dataset.extras["extracted_text_data"] = TextData(jobs[j].text, now)
        /\ \A now \in Instants :
              dataset.extras["extracted_text_data"] # TextData(jobs[k].text, now)

\* The tags each branch of the if/elif chain tests for (lines 77-87 of
\* process_resource, 216-226 of the plugin's copy), by the place the branch
\* leads to.
C31_Tested ==
    [b \in {"pdf", "docx", "doc", "xlsx", "image", "json"} |->
        CASE b = "pdf" -> {<<"p", "d", "f">>}
          [] b = "docx" -> {<<"d", "o", "c", "x">>}
          [] b = "doc" -> {<<"d", "o", "c">>}
          [] b = "xlsx" -> {<<"x", "l", "s", "x">>, <<"x", "l", "s">>}
          [] b = "image" -> {<<"j", "p", "e", "g">>, <<"p", "n", "g">>, <<"t", "i", "f", "f">>, <<"b", "m", "p">>, <<"g", "i", "f">>}
          [] b = "json" -> {<<"j", "s", "o", "n">>}]

\* The dispatch has been made: the format was resolved, the file was found,
\* and the if/elif chain was gone through.
C31_Dispatched == calls # << >> /\ pc # "dispatch"

\* C31: every tag among the values of the synonym table is tested for by
\* exactly one branch of the dispatch, a call whose format resolved to such a
\* tag goes into that branch and is not treated as unsupported, and a call
\* whose format resolved to any other value returns as unsupported.
C31_DispatchTotal ==
    /\ \A t \in DictValues(format_map) :
          /\ Cardinality({b \in DOMAIN C31_Tested : t \in C31_Tested[b]}) = 1
          /\ DispatchPc(t) \in DOMAIN C31_Tested
          /\ t \in C31_Tested[DispatchPc(t)]
    /\ C31_Dispatched =>
          IF fmt \in DictValues(format_map)
          THEN /\ pc \in DOMAIN C31_Tested
               /\ fmt \in C31_Tested[pc]
               /\ result = NoResult
          ELSE /\ pc = "done"
               /\ result = Returned(None)
               /\ calls = <<"os.path.isfile">>

\* Witness of C31: a resource whose declared format is no tag and whose url
\* ends in .gif has gone into the image branch.
C31_Witness ==
    /\ C31_Dispatched
    /\ pc = "image"
    /\ fmt = <<"g", "i", "f">>
    /\ DeclaredFmt(resource) \notin DictValues(format_map)

\* What a resource can still make the pipeline create: a manifest has
\* documents fetched, each of which can have a text artifact; a document of
\* a readable format can have a text artifact; any other resource nothing.
C32_Rank(res) ==
    CASE DispatchPc(ResolveFmt(res)) = "json" -> 2
      [] DispatchPc(ResolveFmt(res)) = "unsupported" -> 0
      [] OTHER -> 1

\* The events of created resources: the one the hook is handling, and those
\* whose calls wait in a post.
C32_Created ==
    {e \in {chain.now} \cup {chain.stack[i].now : i \in 1..Len(chain.stack)} :
        e.maker # "client" /\ e # NoEvent}

\* C32: the chain of processing one resource event triggers is finite. A
\* fetched document has a name that ends in .pdf and never resolves to the
\* manifest format; a text artifact has a name that ends in .txt and resolves
\* to a format no branch reads; every created resource can make the pipeline
\* create strictly less than the resource it was created for, so a fetched
\* document is one creation away from the client's event and an artifact at
\* most two, no more than two calls ever wait in a post, and the call for an
\* artifact fetches, extracts and uploads nothing.
C32_ReentryTerminates ==
    /\ \A e \in C32_Created :
          /\ e.maker \in {"upload_pdf_from_url", "store_text_in_json"}
          /\ C32_Rank(e.resource) < C32_Rank(e.parent)
          /\ e.maker = "upload_pdf_from_url" =>
                /\ EndsWith(Lower(e.resource.name), <<".", "p", "d", "f">>)
                /\ ResolveFmt(e.resource) # <<"j", "s", "o", "n">>
                /\ e.gen = 1
          /\ e.maker = "store_text_in_json" =>
                /\ EndsWith(e.resource.name, <<".", "t", "x", "t">>)
                /\ DispatchPc(ResolveFmt(e.resource)) = "unsupported"
                /\ e.gen \in {1, 2}
    /\ Len(chain.stack) = chain.now.gen
    /\ chain.now.maker \in {"upload_pdf_from_url", "store_text_in_json"} =>
          /\ entry = "after_resource_create"
          /\ pc \notin {"json", "fetch"}
          /\ fetched = << >>
    /\ chain.now.maker = "store_text_in_json" =>
          /\ pc \in {"resolve", "check_file", "dispatch", "caller", "done"}
          /\ uploads = << >>
          /\ Count(calls, "store_text_in_json") = 0

\* The artifact of a fetched document has been handed to the hook, which
\* returned at the unsupported branch, while the call for the manifest
\* waits in the post of the document and the call for the document in the
\* post of the artifact.
C32_Witness ==
    /\ chain.now.maker = "store_text_in_json"
    /\ chain.now.gen = 2
    /\ chain.now.parent.name # chain.now.resource.name
    /\ EndsWith(Lower(chain.now.parent.name), <<".", "p", "d", "f">>)
    /\ pc = "done"
    /\ result = Returned(None)
    /\ calls = <<"os.path.isfile">>
    /\ chain.stack[1].pc = "fetch_post"
    /\ chain.stack[2].pc = "store_post"
    /\ chain.made >= 2
=============================================================================
